---------------------------- MODULE Spec2Model ----------------------------
(***************************************************************************)
(* A model of aitoken-cli: the price lookup and cost formula               *)
(* (src/src/pricing.ts), the usage store and its queries (src/src/db.ts)   *)
(* and the entry points that store usage records (src/src/wrappers.ts,     *)
(* src/src/middleware.ts, src/src/extensions.ts, the CLI).                 *)
(*                                                                         *)
(* Strings are sequences of one-character strings, so that toLowerCase     *)
(* and String.prototype.includes are computed and not assumed.             *)
(*                                                                         *)
(* Money is exact: a price is held in thousandths of a dollar per          *)
(* 1,000,000 tokens and a cost in billionths of a dollar, so that          *)
(*   (p / 1000000) * input + (c / 1000000) * output   dollars              *)
(* is  p * input + c * output  billionths, with no rounding anywhere.      *)
(***************************************************************************)
EXTENDS Integers, Sequences, FiniteSets, TLC

VARIABLES
  q,      \* the arguments of the calculateCost call under study
  qRet,   \* what that call returned (or that it threw)
  qPc,    \* "ready" before the call, "done" after it
  usage,  \* the rows of the usage table, in rowid order
  lastId, \* the last AUTOINCREMENT id given out
  out,    \* the last call made: its arguments, its result, the table before it
  console, \* the console.warn lines the last call wrote
  pending, \* the BatchTracker.track calls: not made, awaiting the API, or done
  gen     \* the generator a streaming call returned, as its consumer drives it

priceVars == <<q, qRet, qPc>>
storeVars == <<usage, lastId, out>>
vars == <<q, qRet, qPc, usage, lastId, out, console, pending, gen>>

----------------------------------------------------------------------------
(* JavaScript values and strings *)

\* A JavaScript number that is an ordinary value.
Number(n) == [kind |-> "number", value |-> n]

\* The JavaScript number NaN (the result of arithmetic on undefined).
NaN == [kind |-> "NaN", value |-> 0]

\* A TypeError thrown out of the function (a property read on undefined).
TypeError == [kind |-> "TypeError", value |-> 0]

\* The value a call has not produced yet.
NoReturn == [kind |-> "none", value |-> 0]

\* No calculateCost call is under study.
NoQuery == [table |-> 1, provider |-> <<>>, model |-> <<>>, tokens |-> <<0, 0>>]

\* No db call has been made yet.
NoOut == [op |-> "none"]

\* No streaming call has been made.
NoStream == [pc |-> "none"]

upperCase ==
  <<"A", "B", "C", "D", "E", "F", "G", "H", "I", "J", "K", "L", "M",
    "N", "O", "P", "Q", "R", "S", "T", "U", "V", "W", "X", "Y", "Z">>

lowerCase ==
  <<"a", "b", "c", "d", "e", "f", "g", "h", "i", "j", "k", "l", "m",
    "n", "o", "p", "q", "r", "s", "t", "u", "v", "w", "x", "y", "z">>

\* String.prototype.toLowerCase on one character.
lowerChar(ch) ==
  IF \E i \in 1..Len(upperCase) : upperCase[i] = ch
    THEN lowerCase[CHOOSE i \in 1..Len(upperCase) : upperCase[i] = ch]
    ELSE ch

\* A normalisation that leaves the string as it is.
keepCase(s) == s

\* String.prototype.toLowerCase.
toLowerCase(s) == [i \in 1..Len(s) |-> lowerChar(s[i])]

\* s.includes(m): m occurs in s as a contiguous substring.
includes(s, m) ==
  \E i \in 0..(Len(s) - Len(m)) : SubSeq(s, i + 1, i + Len(m)) = m

\* The all-lowercase property names every object literal inherits from
\* Object.prototype: obj[name] is then a function or an object (truthy) although
\* name is no key of obj.
inheritedLower ==
  { <<"c", "o", "n", "s", "t", "r", "u", "c", "t", "o", "r">>,   \* 'constructor'
    <<"_", "_", "p", "r", "o", "t", "o", "_", "_">> }            \* '__proto__'

\* Strings the entry points and the documented calls use.
anthropicName == <<"a", "n", "t", "h", "r", "o", "p", "i", "c">>
openaiName == <<"o", "p", "e", "n", "a", "i">>
googleName == <<"g", "o", "o", "g", "l", "e">>
claude35Sonnet ==
  <<"c", "l", "a", "u", "d", "e", "-", "3", ".", "5", "-", "s", "o", "n", "n", "e", "t">>
gpt4o == <<"g", "p", "t", "-", "4", "o">>
gemini15Pro == <<"g", "e", "m", "i", "n", "i", "-", "1", ".", "5", "-", "p", "r", "o">>
otherName == <<"o", "t", "h", "e", "r">>
gpt4oDated ==
  <<"g", "p", "t", "-", "4", "o", "-", "2", "0", "2", "4", "-", "0", "8", "-", "0", "6">>

----------------------------------------------------------------------------
(* src/src/pricing.ts *)

\* The price table of src/src/pricing.ts, in declaration order. Prices are in
\* thousandths of a dollar per 1,000,000 tokens (30.0 is 30000, 0.075 is 75).
pricing ==
  <<
    [ name |-> <<"o", "p", "e", "n", "a", "i">>,  \* openai
      models |-> <<
        [ name |-> <<"g", "p", "t", "-", "4">>, input |-> 30000, output |-> 60000 ],  \* 'gpt-4'
        [ name |-> <<"g", "p", "t", "-", "4", "-", "3", "2", "k">>, input |-> 60000, output |-> 120000 ],  \* 'gpt-4-32k'
        [ name |-> <<"g", "p", "t", "-", "4", "-", "t", "u", "r", "b", "o">>, input |-> 10000, output |-> 30000 ],  \* 'gpt-4-turbo'
        [ name |-> <<"g", "p", "t", "-", "4", "o">>, input |-> 5000, output |-> 15000 ],  \* 'gpt-4o'
        [ name |-> <<"g", "p", "t", "-", "4", "o", "-", "m", "i", "n", "i">>, input |-> 150, output |-> 600 ],  \* 'gpt-4o-mini'
        [ name |-> <<"g", "p", "t", "-", "3", ".", "5", "-", "t", "u", "r", "b", "o">>, input |-> 500, output |-> 1500 ],  \* 'gpt-3.5-turbo'
        [ name |-> <<"g", "p", "t", "-", "3", ".", "5", "-", "t", "u", "r", "b", "o", "-", "1", "6", "k">>, input |-> 3000, output |-> 4000 ],  \* 'gpt-3.5-turbo-16k'
        [ name |-> <<"o", "1", "-", "p", "r", "e", "v", "i", "e", "w">>, input |-> 15000, output |-> 60000 ],  \* 'o1-preview'
        [ name |-> <<"o", "1", "-", "m", "i", "n", "i">>, input |-> 3000, output |-> 12000 ]  \* 'o1-mini'
      >> ],
    [ name |-> <<"a", "n", "t", "h", "r", "o", "p", "i", "c">>,  \* anthropic
      models |-> <<
        [ name |-> <<"c", "l", "a", "u", "d", "e", "-", "3", "-", "o", "p", "u", "s">>, input |-> 15000, output |-> 75000 ],  \* 'claude-3-opus'
        [ name |-> <<"c", "l", "a", "u", "d", "e", "-", "3", "-", "s", "o", "n", "n", "e", "t">>, input |-> 3000, output |-> 15000 ],  \* 'claude-3-sonnet'
        [ name |-> <<"c", "l", "a", "u", "d", "e", "-", "3", "-", "h", "a", "i", "k", "u">>, input |-> 250, output |-> 1250 ],  \* 'claude-3-haiku'
        [ name |-> <<"c", "l", "a", "u", "d", "e", "-", "3", ".", "5", "-", "s", "o", "n", "n", "e", "t">>, input |-> 3000, output |-> 15000 ],  \* 'claude-3.5-sonnet'
        [ name |-> <<"c", "l", "a", "u", "d", "e", "-", "3", ".", "5", "-", "h", "a", "i", "k", "u">>, input |-> 1000, output |-> 5000 ],  \* 'claude-3.5-haiku'
        [ name |-> <<"c", "l", "a", "u", "d", "e", "-", "2", ".", "1">>, input |-> 8000, output |-> 24000 ],  \* 'claude-2.1'
        [ name |-> <<"c", "l", "a", "u", "d", "e", "-", "2", ".", "0">>, input |-> 8000, output |-> 24000 ],  \* 'claude-2.0'
        [ name |-> <<"c", "l", "a", "u", "d", "e", "-", "i", "n", "s", "t", "a", "n", "t">>, input |-> 800, output |-> 2400 ]  \* 'claude-instant'
      >> ],
    [ name |-> <<"g", "o", "o", "g", "l", "e">>,  \* google
      models |-> <<
        [ name |-> <<"g", "e", "m", "i", "n", "i", "-", "1", ".", "5", "-", "p", "r", "o">>, input |-> 3500, output |-> 10500 ],  \* 'gemini-1.5-pro'
        [ name |-> <<"g", "e", "m", "i", "n", "i", "-", "1", ".", "5", "-", "f", "l", "a", "s", "h">>, input |-> 75, output |-> 300 ],  \* 'gemini-1.5-flash'
        [ name |-> <<"g", "e", "m", "i", "n", "i", "-", "1", ".", "0", "-", "p", "r", "o">>, input |-> 500, output |-> 1500 ],  \* 'gemini-1.0-pro'
        [ name |-> <<"g", "e", "m", "i", "n", "i", "-", "p", "r", "o">>, input |-> 500, output |-> 1500 ],  \* 'gemini-pro'
        [ name |-> <<"g", "e", "m", "i", "n", "i", "-", "p", "r", "o", "-", "v", "i", "s", "i", "o", "n">>, input |-> 250, output |-> 500 ]  \* 'gemini-pro-vision'
      >> ],
    [ name |-> <<"a", "z", "u", "r", "e">>,  \* azure
      models |-> <<
        [ name |-> <<"g", "p", "t", "-", "4">>, input |-> 30000, output |-> 60000 ],  \* 'gpt-4'
        [ name |-> <<"g", "p", "t", "-", "4", "-", "3", "2", "k">>, input |-> 60000, output |-> 120000 ],  \* 'gpt-4-32k'
        [ name |-> <<"g", "p", "t", "-", "3", "5", "-", "t", "u", "r", "b", "o">>, input |-> 500, output |-> 1500 ]  \* 'gpt-35-turbo'
      >> ],
    [ name |-> <<"c", "o", "h", "e", "r", "e">>,  \* cohere
      models |-> <<
        [ name |-> <<"c", "o", "m", "m", "a", "n", "d">>, input |-> 1000, output |-> 2000 ],  \* 'command'
        [ name |-> <<"c", "o", "m", "m", "a", "n", "d", "-", "l", "i", "g", "h", "t">>, input |-> 300, output |-> 600 ],  \* 'command-light'
        [ name |-> <<"c", "o", "m", "m", "a", "n", "d", "-", "r">>, input |-> 500, output |-> 1500 ],  \* 'command-r'
        [ name |-> <<"c", "o", "m", "m", "a", "n", "d", "-", "r", "-", "p", "l", "u", "s">>, input |-> 3000, output |-> 15000 ]  \* 'command-r-plus'
      >> ]
  >>

\* The price table that accompanies the calculateCost of src/src/extensions.ts
\* (the 2026 table), in declaration order, same unit.
pricingExt ==
  <<
    [ name |-> <<"o", "p", "e", "n", "a", "i">>,  \* openai
      models |-> <<
        [ name |-> <<"g", "p", "t", "-", "5", ".", "2">>, input |-> 1750, output |-> 14000 ],  \* 'gpt-5.2'
        [ name |-> <<"g", "p", "t", "-", "5", ".", "2", "-", "p", "r", "o">>, input |-> 21000, output |-> 168000 ],  \* 'gpt-5.2-pro'
        [ name |-> <<"g", "p", "t", "-", "5", "-", "m", "i", "n", "i">>, input |-> 250, output |-> 2000 ],  \* 'gpt-5-mini'
        [ name |-> <<"g", "p", "t", "-", "4", ".", "1">>, input |-> 3000, output |-> 12000 ],  \* 'gpt-4.1'
        [ name |-> <<"g", "p", "t", "-", "4", ".", "1", "-", "m", "i", "n", "i">>, input |-> 800, output |-> 3200 ],  \* 'gpt-4.1-mini'
        [ name |-> <<"g", "p", "t", "-", "4", ".", "1", "-", "n", "a", "n", "o">>, input |-> 200, output |-> 800 ],  \* 'gpt-4.1-nano'
        [ name |-> <<"o", "4", "-", "m", "i", "n", "i">>, input |-> 4000, output |-> 16000 ],  \* 'o4-mini'
        [ name |-> <<"g", "p", "t", "-", "4">>, input |-> 30000, output |-> 60000 ],  \* 'gpt-4'
        [ name |-> <<"g", "p", "t", "-", "4", "-", "3", "2", "k">>, input |-> 60000, output |-> 120000 ],  \* 'gpt-4-32k'
        [ name |-> <<"g", "p", "t", "-", "4", "-", "t", "u", "r", "b", "o">>, input |-> 10000, output |-> 30000 ],  \* 'gpt-4-turbo'
        [ name |-> <<"g", "p", "t", "-", "4", "o">>, input |-> 5000, output |-> 15000 ],  \* 'gpt-4o'
        [ name |-> <<"g", "p", "t", "-", "4", "o", "-", "m", "i", "n", "i">>, input |-> 150, output |-> 600 ],  \* 'gpt-4o-mini'
        [ name |-> <<"g", "p", "t", "-", "3", ".", "5", "-", "t", "u", "r", "b", "o">>, input |-> 500, output |-> 1500 ],  \* 'gpt-3.5-turbo'
        [ name |-> <<"g", "p", "t", "-", "3", ".", "5", "-", "t", "u", "r", "b", "o", "-", "1", "6", "k">>, input |-> 3000, output |-> 4000 ],  \* 'gpt-3.5-turbo-16k'
        [ name |-> <<"o", "1", "-", "p", "r", "e", "v", "i", "e", "w">>, input |-> 15000, output |-> 60000 ],  \* 'o1-preview'
        [ name |-> <<"o", "1", "-", "m", "i", "n", "i">>, input |-> 3000, output |-> 12000 ]  \* 'o1-mini'
      >> ],
    [ name |-> <<"a", "n", "t", "h", "r", "o", "p", "i", "c">>,  \* anthropic
      models |-> <<
        [ name |-> <<"c", "l", "a", "u", "d", "e", "-", "s", "o", "n", "n", "e", "t", "-", "4", "-", "5">>, input |-> 3000, output |-> 15000 ],  \* 'claude-sonnet-4-5'
        [ name |-> <<"c", "l", "a", "u", "d", "e", "-", "s", "o", "n", "n", "e", "t", "-", "4", ".", "5">>, input |-> 3000, output |-> 15000 ],  \* 'claude-sonnet-4.5'
        [ name |-> <<"c", "l", "a", "u", "d", "e", "-", "h", "a", "i", "k", "u", "-", "4", "-", "5">>, input |-> 1000, output |-> 5000 ],  \* 'claude-haiku-4-5'
        [ name |-> <<"c", "l", "a", "u", "d", "e", "-", "h", "a", "i", "k", "u", "-", "4", ".", "5">>, input |-> 1000, output |-> 5000 ],  \* 'claude-haiku-4.5'
        [ name |-> <<"c", "l", "a", "u", "d", "e", "-", "o", "p", "u", "s", "-", "4", "-", "5">>, input |-> 5000, output |-> 25000 ],  \* 'claude-opus-4-5'
        [ name |-> <<"c", "l", "a", "u", "d", "e", "-", "o", "p", "u", "s", "-", "4", ".", "5">>, input |-> 5000, output |-> 25000 ],  \* 'claude-opus-4.5'
        [ name |-> <<"c", "l", "a", "u", "d", "e", "-", "3", "-", "o", "p", "u", "s">>, input |-> 15000, output |-> 75000 ],  \* 'claude-3-opus'
        [ name |-> <<"c", "l", "a", "u", "d", "e", "-", "3", "-", "s", "o", "n", "n", "e", "t">>, input |-> 3000, output |-> 15000 ],  \* 'claude-3-sonnet'
        [ name |-> <<"c", "l", "a", "u", "d", "e", "-", "3", "-", "h", "a", "i", "k", "u">>, input |-> 250, output |-> 1250 ],  \* 'claude-3-haiku'
        [ name |-> <<"c", "l", "a", "u", "d", "e", "-", "3", ".", "5", "-", "s", "o", "n", "n", "e", "t">>, input |-> 3000, output |-> 15000 ],  \* 'claude-3.5-sonnet'
        [ name |-> <<"c", "l", "a", "u", "d", "e", "-", "3", ".", "5", "-", "h", "a", "i", "k", "u">>, input |-> 1000, output |-> 5000 ],  \* 'claude-3.5-haiku'
        [ name |-> <<"c", "l", "a", "u", "d", "e", "-", "2", ".", "1">>, input |-> 8000, output |-> 24000 ],  \* 'claude-2.1'
        [ name |-> <<"c", "l", "a", "u", "d", "e", "-", "2", ".", "0">>, input |-> 8000, output |-> 24000 ],  \* 'claude-2.0'
        [ name |-> <<"c", "l", "a", "u", "d", "e", "-", "i", "n", "s", "t", "a", "n", "t">>, input |-> 800, output |-> 2400 ]  \* 'claude-instant'
      >> ],
    [ name |-> <<"g", "o", "o", "g", "l", "e">>,  \* google
      models |-> <<
        [ name |-> <<"g", "e", "m", "i", "n", "i", "-", "1", ".", "5", "-", "p", "r", "o">>, input |-> 3500, output |-> 10500 ],  \* 'gemini-1.5-pro'
        [ name |-> <<"g", "e", "m", "i", "n", "i", "-", "1", ".", "5", "-", "f", "l", "a", "s", "h">>, input |-> 75, output |-> 300 ],  \* 'gemini-1.5-flash'
        [ name |-> <<"g", "e", "m", "i", "n", "i", "-", "1", ".", "0", "-", "p", "r", "o">>, input |-> 500, output |-> 1500 ],  \* 'gemini-1.0-pro'
        [ name |-> <<"g", "e", "m", "i", "n", "i", "-", "p", "r", "o">>, input |-> 500, output |-> 1500 ],  \* 'gemini-pro'
        [ name |-> <<"g", "e", "m", "i", "n", "i", "-", "p", "r", "o", "-", "v", "i", "s", "i", "o", "n">>, input |-> 250, output |-> 500 ]  \* 'gemini-pro-vision'
      >> ],
    [ name |-> <<"a", "z", "u", "r", "e">>,  \* azure
      models |-> <<
        [ name |-> <<"g", "p", "t", "-", "4">>, input |-> 30000, output |-> 60000 ],  \* 'gpt-4'
        [ name |-> <<"g", "p", "t", "-", "4", "-", "3", "2", "k">>, input |-> 60000, output |-> 120000 ],  \* 'gpt-4-32k'
        [ name |-> <<"g", "p", "t", "-", "3", "5", "-", "t", "u", "r", "b", "o">>, input |-> 500, output |-> 1500 ]  \* 'gpt-35-turbo'
      >> ],
    [ name |-> <<"c", "o", "h", "e", "r", "e">>,  \* cohere
      models |-> <<
        [ name |-> <<"c", "o", "m", "m", "a", "n", "d">>, input |-> 1000, output |-> 2000 ],  \* 'command'
        [ name |-> <<"c", "o", "m", "m", "a", "n", "d", "-", "l", "i", "g", "h", "t">>, input |-> 300, output |-> 600 ],  \* 'command-light'
        [ name |-> <<"c", "o", "m", "m", "a", "n", "d", "-", "r">>, input |-> 500, output |-> 1500 ],  \* 'command-r'
        [ name |-> <<"c", "o", "m", "m", "a", "n", "d", "-", "r", "-", "p", "l", "u", "s">>, input |-> 3000, output |-> 15000 ]  \* 'command-r-plus'
      >> ]
  >>
\* The price tables calculateCost can be built with: 1 is src/src/pricing.ts,
\* 2 is the table beside the calculateCost of src/src/extensions.ts.
priceTable(t) == IF t = 1 THEN pricing ELSE pricingExt

\* The position of key k among the entries of an object literal, 0 when k is no
\* key of its own.
ownIndex(entries, k) ==
  IF \E i \in 1..Len(entries) : entries[i].name = k
    THEN CHOOSE i \in 1..Len(entries) : entries[i].name = k
    ELSE 0

\* Array.prototype.find over Object.keys(models), from position i on: the position
\* of the first key, in declaration order, that the queried name includes; 0 when
\* there is none.
RECURSIVE findFrom(_, _, _)
findFrom(models, queried, i) ==
  IF i > Len(models) THEN 0
  ELSE IF includes(queried, models[i].name) THEN i
  ELSE findFrom(models, queried, i + 1)

\* A find that keeps the last key the queried name includes.
findLast(models, queried) ==
  IF \E i \in 1..Len(models) : includes(queried, models[i].name)
    THEN CHOOSE i \in 1..Len(models) :
           /\ includes(queried, models[i].name)
           /\ \A j \in (i + 1)..Len(models) : ~includes(queried, models[j].name)
    ELSE 0

\* Object.keys(providerPricing.models).find((m) => model.toLowerCase().includes(m))
find(models, queried) == findFrom(models, queried, 1)

\* A cost formula with the two prices swapped.
costSwapped(promptTokens, completionTokens, p) ==
  promptTokens * p.output + completionTokens * p.input

\* (promptTokens / 1_000_000) * p.input + (completionTokens / 1_000_000) * p.output,
\* in billionths of a dollar.
costOf(promptTokens, completionTokens, p) ==
  promptTokens * p.input + completionTokens * p.output

\* A lookup that never finds the exact key, so that every name is scanned for.
exactNever(models, queried) == 0

\* providerPricing.models[model.toLowerCase()] when the name is a key of its own.
exactIndex(models, queried) == ownIndex(models, queried)

\* A calculateCost that answers with the cost of the last stored record of the
\* provider when there is one, and prices the call only otherwise.
calculateCostCached(t, provider, model, promptTokens, completionTokens) ==
  IF \E i \in 1..Len(usage) : usage[i].provider = provider
    THEN Number(usage[CHOOSE i \in 1..Len(usage) :
                        /\ usage[i].provider = provider
                        /\ \A j \in (i + 1)..Len(usage) : usage[j].provider # provider].cost)
    ELSE LET table == priceTable(t)
             pi == ownIndex(table, toLowerCase(provider))
             mi == IF pi = 0 THEN 0 ELSE exactIndex(table[pi].models, toLowerCase(model))
         IN  IF mi = 0 THEN Number(0)
             ELSE Number(costOf(promptTokens, completionTokens, table[pi].models[mi]))

\* calculateCost(provider, model, promptTokens, completionTokens) over table t.
calculateCost(t, provider, model, promptTokens, completionTokens) ==
  LET table == priceTable(t)
      prov == toLowerCase(provider)
      pi == ownIndex(table, prov)
      queried == toLowerCase(model)
  IN  IF pi = 0
        THEN IF prov \in inheritedLower
               THEN TypeError       \* providerPricing.models is undefined
               ELSE Number(0)       \* !providerPricing
        ELSE LET models == table[pi].models
                 mi == exactIndex(models, queried)
                 fi == find(models, queried)
             IN  IF mi # 0
                   THEN Number(costOf(promptTokens, completionTokens, models[mi]))
                 ELSE IF queried \in inheritedLower
                   THEN NaN         \* modelPricing.input is undefined
                 ELSE IF fi # 0
                   THEN Number(costOf(promptTokens, completionTokens, models[fi]))
                 ELSE Number(0)

\* console.warn(`[aitoken-cli] Unknown provider "${provider}" ...`)
UnknownProvider(provider) == [kind |-> "Unknown provider", provider |-> provider]

\* console.warn(`[aitoken-cli] Unknown model "${model}" for provider "${provider}" ...`)
UnknownModel(provider, model) ==
  [kind |-> "Unknown model", provider |-> provider, model |-> model]

\* The console.warn lines a calculateCost call over table t writes. The function
\* of src/src/pricing.ts (table 1) has no console.warn; the copy in
\* src/src/extensions.ts (table 2) warns before each `return 0`, and only when a
\* token count is positive.
warnings(t, provider, model, promptTokens, completionTokens) ==
  LET table == priceTable(t)
      prov == toLowerCase(provider)
      pi == ownIndex(table, prov)
      queried == toLowerCase(model)
      positive == promptTokens > 0 \/ completionTokens > 0
  IN  IF t = 1 THEN <<>>
      ELSE IF pi = 0
        THEN IF prov \notin inheritedLower /\ positive
               THEN <<UnknownProvider(provider)>> ELSE <<>>
      ELSE IF exactIndex(table[pi].models, queried) # 0
              \/ queried \in inheritedLower
              \/ find(table[pi].models, queried) # 0
        THEN <<>>
      ELSE IF positive THEN <<UnknownModel(provider, model)>> ELSE <<>>

----------------------------------------------------------------------------
(* src/src/db.ts: the usage table and its queries *)

\* An optional argument: undefined, or the value supplied.
undefined == <<>>
Some(v) == <<v>>
Optional(S) == {undefined} \cup { Some(v) : v \in S }

\* if (x) on an optional string: undefined and '' are both falsy.
truthyString(o) == o # undefined /\ o[1] # <<>>

\* if (x) on an optional number: undefined and 0 are both falsy.
truthyNumber(o) == o # undefined /\ o[1] # 0

\* SQL NULL in the notes column (usage.notes || null): no stored text is '', so
\* the empty sequence stands for NULL.
null == <<>>

\* SQLite's comparison of two TEXT values, a <= b: byte by byte, a proper prefix
\* first. A timestamp is held as a one-symbol string <<t>> whose symbol grows with
\* the instant, as the fixed-width output of Date.prototype.toISOString does; ''
\* is <<>>.
RECURSIVE textLeq(_, _)
textLeq(a, b) ==
  IF a = <<>> THEN TRUE
  ELSE IF b = <<>> THEN FALSE
  ELSE IF Head(a) # Head(b) THEN Head(a) < Head(b)
  ELSE textLeq(Tail(a), Tail(b))

textLess(a, b) == textLeq(a, b) /\ a # b

\* new Date().toISOString() read at instant t.
toISOString(t) == <<t>>

\* WHERE 1=1 [AND provider = ?] [AND timestamp >= ?] [AND timestamp <= ?]: each
\* clause is appended only when its filter is truthy.
selected(row, filters) ==
  /\ truthyString(filters.provider) => row.provider = filters.provider[1]
  /\ truthyString(filters.startDate) => textLeq(filters.startDate[1], row.timestamp)
  /\ truthyString(filters.endDate) => textLeq(row.timestamp, filters.endDate[1])

\* The rows a SELECT ... WHERE returns, as a set.
selectRows(table, filters) ==
  { table[i] : i \in { h \in 1..Len(table) : selected(table[h], filters) } }

\* The orders ORDER BY timestamp DESC may return a set of rows in: every
\* arrangement that never puts an earlier timestamp first (SQL leaves the order of
\* equal timestamps open).
orderings(rows) ==
  { s \in [1..Cardinality(rows) -> rows] :
      /\ \A i, j \in 1..Cardinality(rows) : i # j => s[i] # s[j]
      /\ \A i \in 1..(Cardinality(rows) - 1) : textLeq(s[i + 1].timestamp, s[i].timestamp) }

\* LIMIT ?, appended only when filters.limit is truthy.
limited(s, limit) ==
  IF truthyNumber(limit) /\ limit[1] < Len(s) THEN SubSeq(s, 1, limit[1]) ELSE s

\* getUsage(filters): the results the query may return.
getUsage(table, filters) ==
  { limited(s, filters.limit) : s \in orderings(selectRows(table, filters)) }

\* Every property name an object literal inherits from Object.prototype:
\* stats.byProvider[name] is truthy for these although no entry was created.
inheritedProps ==
  inheritedLower \cup
  { <<"t", "o", "S", "t", "r", "i", "n", "g">>,                       \* 'toString'
    <<"v", "a", "l", "u", "e", "O", "f">>,                            \* 'valueOf'
    <<"h", "a", "s", "O", "w", "n", "P", "r", "o", "p", "e", "r", "t", "y">> } \* 'hasOwnProperty'

zeroEntry == [requests |-> 0, tokens |-> 0, cost |-> 0]

\* The body of "By provider" / "By model" in getStats for one row and one key:
\* the entry is created when obj[key] is falsy, then incremented. When key is an
\* inherited name, obj[key] is the inherited function: no entry is created and the
\* increments land on that function, so obj's own entries are unchanged.
accumulate(obj, key, row) ==
  IF key \notin DOMAIN obj /\ key \in inheritedProps
    THEN obj
    ELSE LET created == IF key \in DOMAIN obj
                          THEN obj
                          ELSE [k \in DOMAIN obj \cup {key} |->
                                  IF k = key THEN zeroEntry ELSE obj[k]]
         IN  [created EXCEPT ![key] = [requests |-> @.requests + 1,
                                       tokens |-> @.tokens + row.totalTokens,
                                       cost |-> @.cost + row.cost]]

\* `${row.provider}/${row.model}`
modelKey(row) == row.provider \o <<"/">> \o row.model

\* The for loop of getStats over rows[i..], from the stats so far.
RECURSIVE statsLoop(_, _, _)
statsLoop(rows, i, stats) ==
  IF i > Len(rows) THEN stats
  ELSE statsLoop(rows, i + 1,
         [ totalRequests |-> stats.totalRequests,
           totalTokens |-> stats.totalTokens + rows[i].totalTokens,
           totalCost |-> stats.totalCost + rows[i].cost,
           byProvider |-> accumulate(stats.byProvider, rows[i].provider, rows[i]),
           byModel |-> accumulate(stats.byModel, modelKey(rows[i]), rows[i]) ])

\* The rows of a table that a SELECT with no ORDER BY returns, in table order.
RECURSIVE selectSeq(_, _)
selectSeq(table, filters) ==
  IF table = <<>> THEN <<>>
  ELSE IF selected(Head(table), filters)
    THEN <<Head(table)>> \o selectSeq(Tail(table), filters)
  ELSE selectSeq(Tail(table), filters)

\* A getStats whose totalRequests counts every stored row, selected or not.
getStatsCountingAll(table, filters) ==
  statsLoop(selectSeq(table, filters), 1,
    [ totalRequests |-> Len(table), totalTokens |-> 0, totalCost |-> 0,
      byProvider |-> <<>>, byModel |-> <<>> ])

\* A getStats whose query has no endDate clause.
getStatsUnbounded(table, filters) ==
  LET rows == selectSeq(table, [filters EXCEPT !.endDate = undefined])
  IN  statsLoop(rows, 1,
        [ totalRequests |-> Len(rows), totalTokens |-> 0, totalCost |-> 0,
          byProvider |-> <<>>, byModel |-> <<>> ])

\* getStats(filters)
getStats(table, filters) ==
  LET rows == selectSeq(table, filters)
  IN  statsLoop(rows, 1,
        [ totalRequests |-> Len(rows), totalTokens |-> 0, totalCost |-> 0,
          byProvider |-> <<>>, byModel |-> <<>> ])

\* DELETE FROM usage WHERE 1=1 [AND provider = ?] [AND timestamp < ?]
deleted(row, filters) ==
  /\ truthyString(filters.provider) => row.provider = filters.provider[1]
  /\ truthyString(filters.before) => textLess(row.timestamp, filters.before[1])

\* The table after clearUsage(filters).
RECURSIVE clearUsage(_, _)
clearUsage(table, filters) ==
  IF table = <<>> THEN <<>>
  ELSE IF deleted(Head(table), filters)
    THEN clearUsage(Tail(table), filters)
  ELSE <<Head(table)>> \o clearUsage(Tail(table), filters)

\* An addUsage that adds the tokens and the cost to a stored row of the same
\* provider and model when there is one, instead of inserting.
addUsageUpsert(table, id, u) ==
  IF \E i \in 1..Len(table) : table[i].provider = u.provider /\ table[i].model = u.model
    THEN LET i == CHOOSE h \in 1..Len(table) :
                    table[h].provider = u.provider /\ table[h].model = u.model
         IN  [table EXCEPT ![i].promptTokens = @ + u.promptTokens,
                           ![i].completionTokens = @ + u.completionTokens,
                           ![i].totalTokens = @ + u.totalTokens,
                           ![i].cost = @ + u.cost,
                           ![i].timestamp = u.timestamp]
    ELSE Append(table, [ id |-> id, provider |-> u.provider, model |-> u.model,
                         promptTokens |-> u.promptTokens,
                         completionTokens |-> u.completionTokens,
                         totalTokens |-> u.totalTokens, cost |-> u.cost,
                         timestamp |-> u.timestamp,
                         notes |-> IF truthyString(u.notes) THEN u.notes[1] ELSE null ])

\* addUsage(usage): the table with the row inserted under the next AUTOINCREMENT
\* id.
addUsage(table, id, u) ==
  Append(table, [ id |-> id, provider |-> u.provider, model |-> u.model,
                  promptTokens |-> u.promptTokens,
                  completionTokens |-> u.completionTokens,
                  totalTokens |-> u.totalTokens, cost |-> u.cost,
                  timestamp |-> u.timestamp,
                  notes |-> IF truthyString(u.notes) THEN u.notes[1] ELSE null ])

----------------------------------------------------------------------------
(* calculateCost as a pure function over bounded inputs *)

\* The provider strings calculateCost is called with: the table's providers, a
\* differently cased one, the Provider type's 'other', an unknown one and a name
\* every object inherits.
QueryProviders ==
  { <<"o", "p", "e", "n", "a", "i">>,  \* 'openai'
    <<"O", "p", "e", "n", "A", "I">>,  \* 'OpenAI'
    <<"a", "n", "t", "h", "r", "o", "p", "i", "c">>,  \* 'anthropic'
    <<"g", "o", "o", "g", "l", "e">>,  \* 'google'
    <<"a", "z", "u", "r", "e">>,  \* 'azure'
    <<"c", "o", "h", "e", "r", "e">>,  \* 'cohere'
    <<"o", "t", "h", "e", "r">>,  \* 'other'
    <<"m", "i", "s", "t", "r", "a", "l">>,  \* 'mistral'
    <<"c", "o", "n", "s", "t", "r", "u", "c", "t", "o", "r">> }  \* 'constructor'

\* Suffixes appended to known model keys (a dated and an aliased model name).
Suffixes ==
  { <<"-", "2", "0", "2", "4", "-", "0", "8", "-", "0", "6">>,  \* '-2024-08-06'
    <<"-", "l", "a", "t", "e", "s", "t">> }  \* '-latest'

\* Model strings that are no key followed by a suffix: differently cased keys, a
\* key inside a longer name, unknown names, inherited names and the empty string.
OtherModels ==
  { <<"G", "P", "T", "-", "4", "o">>,  \* 'GPT-4o'
    <<"C", "l", "a", "u", "d", "e", "-", "3", ".", "5", "-", "S", "o", "n", "n", "e", "t">>,  \* 'Claude-3.5-Sonnet'
    <<"m", "y", "-", "g", "p", "t", "-", "4", "-", "f", "i", "n", "e", "t", "u", "n", "e">>,  \* 'my-gpt-4-finetune'
    <<"l", "l", "a", "m", "a", "-", "3">>,  \* 'llama-3'
    <<"g", "p", "t">>,  \* 'gpt'
    <<"c", "o", "n", "s", "t", "r", "u", "c", "t", "o", "r">>,  \* 'constructor'
    <<"_", "_", "p", "r", "o", "t", "o", "_", "_">>,  \* '__proto__'
    <<>> }  \* ''

\* Every model key of either table.
KnownKeys ==
  UNION { { pr.models[j].name : j \in 1..Len(pr.models) } :
            pr \in { pricing[i] : i \in 1..Len(pricing) }
                    \cup { pricingExt[i] : i \in 1..Len(pricingExt) } }

QueryModels ==
  KnownKeys \cup { k \o s : <<k, s>> \in KnownKeys \X Suffixes } \cup OtherModels

\* <<promptTokens, completionTokens>> pairs: none, one token, and the three
\* calculations of src/VERIFICATION.md.
TokenCounts ==
  { <<0, 0>>, <<1, 0>>, <<0, 1>>, <<1, 1>>,
    <<10000, 5000>>, <<2500, 1500>>, <<8000, 3000>> }

PriceInit ==
  /\ q \in [ table : {1, 2}, provider : QueryProviders, model : QueryModels,
             tokens : TokenCounts ]
  /\ qRet = NoReturn
  /\ qPc = "ready"
  /\ usage = <<>>
  /\ lastId = 0
  /\ out = NoOut
  /\ console = <<>>
  /\ pending = <<>>
  /\ gen = NoStream

\* One call of calculateCost.
CallCalculateCost ==
  /\ qPc = "ready"
  /\ qRet' = calculateCost(q.table, q.provider, q.model, q.tokens[1], q.tokens[2])
  /\ qPc' = "done"
  /\ console' = warnings(q.table, q.provider, q.model, q.tokens[1], q.tokens[2])
  /\ UNCHANGED <<q, storeVars, pending, gen>>

PriceNext == CallCalculateCost

----------------------------------------------------------------------------
(* The store under the CLI's add command and the queries *)

\* Values of --provider: a priced provider, a name every object inherits, and the
\* empty string.
CliProviders ==
  { <<"o", "p", "e", "n", "a", "i">>,  \* 'openai'
    <<"t", "o", "S", "t", "r", "i", "n", "g">>,  \* 'toString'
    <<>> }  \* ''

\* Values of --model.
CliModels ==
  { <<"g", "p", "t", "-", "4", "o">>,  \* 'gpt-4o'
    <<"g", "p", "t", "-", "4">> }  \* 'gpt-4'

\* <<input, output>> token counts given to the CLI.
CliTokens == { <<1000, 500>> }

\* Values of --notes and of the notes argument of the entry points: none, or a
\* text.
Notes == { undefined, Some(<<"n">>) }

\* The most rows ever inserted (AUTOINCREMENT never reuses an id).
MaxInserts == 2

\* The instants the wall clock is read at are 1..MaxTime.
MaxTime == 2

Instants == 1..MaxTime

\* Date strings given as filters: '' and the ISO form of each instant.
FilterDates == { <<>> } \cup { toISOString(t) : t \in Instants }

UsageFilters ==
  [ provider : Optional(CliProviders), startDate : Optional(FilterDates),
    endDate : Optional(FilterDates), limit : Optional(0..MaxInserts) ]

StatsFilters ==
  [ provider : Optional(CliProviders), startDate : Optional(FilterDates),
    endDate : Optional(FilterDates) ]

ClearFilters ==
  [ provider : Optional(CliProviders), before : Optional(FilterDates) ]

StoreInit ==
  /\ usage = <<>>
  /\ lastId = 0
  /\ out = NoOut
  /\ q = NoQuery
  /\ qRet = NoReturn
  /\ qPc = "idle"
  /\ console = <<>>
  /\ pending = <<>>
  /\ gen = NoStream

\* The CLI's add command: the cost is computed, the row inserted; a cost that is
\* no number (or a throw) is reported and nothing is inserted.
CliAdd(provider, model, tokens, notes, t) ==
  LET cost == calculateCost(1, provider, model, tokens[1], tokens[2])
  IN  /\ out = NoOut
      /\ lastId < MaxInserts
      /\ IF cost.kind = "number"
           THEN /\ usage' = addUsage(usage, lastId + 1,
                     [ provider |-> provider, model |-> model,
                       promptTokens |-> tokens[1], completionTokens |-> tokens[2],
                       totalTokens |-> tokens[1] + tokens[2],
                       cost |-> cost.value, timestamp |-> toISOString(t),
                       notes |-> notes ])
                /\ lastId' = lastId + 1
           ELSE UNCHANGED <<usage, lastId>>
      /\ out' = NoOut
      /\ console' = <<>>
      /\ UNCHANGED <<priceVars, pending, gen>>

\* A call of getUsage(filters) and what it returned. Calls do not overlap: the
\* store is synchronous and each is made from a state where none is pending.
GetUsage(filters) ==
  /\ out = NoOut
  /\ \E r \in getUsage(usage, filters) :
       out' = [op |-> "getUsage", args |-> filters, result |-> r, before |-> usage]
  /\ console' = <<>>
  /\ UNCHANGED <<usage, lastId, priceVars, pending, gen>>

\* A call of getStats(filters) and what it returned.
GetStats(filters) ==
  /\ out = NoOut
  /\ out' = [op |-> "getStats", args |-> filters,
             result |-> getStats(usage, filters), before |-> usage]
  /\ console' = <<>>
  /\ UNCHANGED <<usage, lastId, priceVars, pending, gen>>

\* A call of clearUsage(filters): the rows deleted, and result.changes returned.
ClearUsage(filters) ==
  /\ out = NoOut
  /\ usage' = clearUsage(usage, filters)
  /\ out' = [op |-> "clearUsage", args |-> filters,
             result |-> Len(usage) - Len(clearUsage(usage, filters)),
             before |-> usage]
  /\ console' = <<>>
  /\ UNCHANGED <<lastId, priceVars, pending, gen>>

\* The caller has taken the result of the call: the command ends.
Return ==
  /\ out # NoOut
  /\ out' = NoOut
  /\ UNCHANGED <<usage, lastId, priceVars, console, pending, gen>>

StoreNext ==
  \/ \E p \in CliProviders, m \in CliModels, k \in CliTokens, n \in Notes,
          t \in Instants :
       CliAdd(p, m, k, n, t)
  \/ \E f \in UsageFilters : GetUsage(f)
  \/ \E f \in StatsFilters : GetStats(f)
  \/ \E f \in ClearFilters : ClearUsage(f)
  \/ Return

\* A clear command that does not ask for --yes.
CliClearUnconfirmed(yes, provider, before) ==
  /\ out = NoOut
  /\ usage' = clearUsage(usage, [provider |-> provider, before |-> before])
  /\ out' = [op |-> "clear",
             args |-> [yes |-> yes, provider |-> provider, before |-> before],
             before |-> usage]
  /\ console' = <<>>
  /\ UNCHANGED <<lastId, priceVars, pending, gen>>

\* The CLI's clear command: without --yes it prints how to confirm and returns;
\* with --yes it calls clearUsage({provider, before}).
CliClear(yes, provider, before) ==
  /\ out = NoOut
  /\ usage' = IF yes
                THEN clearUsage(usage, [provider |-> provider, before |-> before])
                ELSE usage
  /\ out' = [op |-> "clear",
             args |-> [yes |-> yes, provider |-> provider, before |-> before],
             before |-> usage]
  /\ console' = <<>>
  /\ UNCHANGED <<lastId, priceVars, pending, gen>>

\* A call of calculateCost made while the store holds records.
CostCall(provider, model, tokens) ==
  /\ out = NoOut
  /\ out' = [op |-> "calculateCost",
             args |-> [provider |-> provider, model |-> model, tokens |-> tokens],
             result |-> calculateCost(1, provider, model, tokens[1], tokens[2]),
             before |-> usage]
  /\ console' = warnings(1, provider, model, tokens[1], tokens[2])
  /\ UNCHANGED <<usage, lastId, priceVars, pending, gen>>

\* The store under every operation that reads or writes it, over few inputs: two
\* providers, one model, one date filter.
FrameProviders == { openaiName, anthropicName }

FrameUsageFilters ==
  [ provider : Optional({openaiName}), startDate : Optional({toISOString(1)}),
    endDate : {undefined}, limit : Optional({1}) ]

FrameStatsFilters ==
  [ provider : Optional({openaiName}), startDate : {undefined},
    endDate : Optional({toISOString(1)}) ]

FrameInit == StoreInit

FrameNext ==
  \/ \E p \in FrameProviders, k \in CliTokens, n \in Notes, t \in Instants :
       CliAdd(p, gpt4o, k, n, t)
  \/ \E f \in FrameUsageFilters : GetUsage(f)
  \/ \E f \in FrameStatsFilters : GetStats(f)
  \/ \E p \in Optional({openaiName}), b \in Optional(FilterDates) :
       ClearUsage([provider |-> p, before |-> b])
  \/ \E y \in BOOLEAN, p \in Optional({openaiName}), b \in Optional(FilterDates) :
       CliClear(y, p, b)
  \/ \E p \in FrameProviders, k \in CliTokens : CostCall(p, gpt4o, k)
  \/ Return

\* calculateCost called twice, the store's operations in between: the first call
\* is the call under study, made at any moment; the later ones are CostCall.
PureQueries ==
  [ table : {1}, provider : FrameProviders, model : {gpt4o, gpt4oDated},
    tokens : { <<1, 1>> } \cup CliTokens ]

PureInit ==
  /\ q \in PureQueries
  /\ qRet = NoReturn
  /\ qPc = "ready"
  /\ usage = <<>>
  /\ lastId = 0
  /\ out = NoOut
  /\ console = <<>>
  /\ pending = <<>>
  /\ gen = NoStream

PureNext ==
  \/ CallCalculateCost
  \/ \E x \in PureQueries : CostCall(x.provider, x.model, x.tokens)
  \/ \E p \in FrameProviders, k \in CliTokens, t \in Instants :
       CliAdd(p, gpt4o, k, undefined, t)
  \/ \E f \in FrameStatsFilters : GetStats(f)
  \/ \E p \in Optional({openaiName}) : ClearUsage([provider |-> p, before |-> undefined])
  \/ Return

----------------------------------------------------------------------------
(* The CLI's list command *)

\* The digits of parseInt, by value: '0'..'9', then 'a'..'z'.
digits == <<"0", "1", "2", "3", "4", "5", "6", "7", "8", "9">> \o lowerCase

\* The value of a character as a digit; Len(digits) when it is none.
digitValue(ch) ==
  IF \E i \in 1..Len(digits) : digits[i] = lowerChar(ch)
    THEN (CHOOSE i \in 1..Len(digits) : digits[i] = lowerChar(ch)) - 1
    ELSE Len(digits)

\* The value of the longest prefix of s made of digits below the radix.
RECURSIVE parseDigits(_, _, _)
parseDigits(s, radix, acc) ==
  IF s = <<>> \/ digitValue(Head(s)) >= radix THEN acc
  ELSE parseDigits(Tail(s), radix, acc * radix + digitValue(Head(s)))

\* parseInt(s, radix) for a radix of 2..36 and a string without white space,
\* sign or prefix: NaN when the first character is no digit of the radix.
parseInt(s, radix) ==
  IF s = <<>> \/ digitValue(Head(s)) >= radix THEN NaN
  ELSE Number(parseDigits(s, radix, 0))

\* The default of --limit.
defaultLimit == 20

\* options.limit of the list command. commander calls the option's parser as
\* parser(value, previous), previous being the default here: parseInt(value, 20).
\* Without -l the default is taken as it is. NaN is falsy for getUsage, as
\* undefined is.
optionLimit(l) ==
  IF l = undefined THEN Some(defaultLimit)
  ELSE LET n == parseInt(l[1], defaultLimit)
       IN  IF n.kind = "number" THEN Some(n.value) ELSE undefined

\* ORDER BY timestamp DESC over rows whose timestamps all differ: the row put
\* before the first row that is not later.
RECURSIVE insertByTimestamp(_, _)
insertByTimestamp(row, sorted) ==
  IF sorted = <<>> THEN <<row>>
  ELSE IF textLeq(Head(sorted).timestamp, row.timestamp) THEN <<row>> \o sorted
  ELSE <<Head(sorted)>> \o insertByTimestamp(row, Tail(sorted))

RECURSIVE orderByTimestamp(_)
orderByTimestamp(rows) ==
  IF rows = <<>> THEN <<>>
  ELSE insertByTimestamp(Head(rows), orderByTimestamp(Tail(rows)))

\* getUsage(filters) on a table whose timestamps all differ.
getUsageOrdered(table, filters) ==
  limited(orderByTimestamp(selectSeq(table, filters)), filters.limit)

\* The list command: getUsage({provider, limit}) and the entries displayed.
CliList(provider, l) ==
  /\ out = NoOut
  /\ out' = [op |-> "list", args |-> [provider |-> provider, limit |-> l],
             result |-> getUsageOrdered(usage,
                          [ provider |-> provider, startDate |-> undefined,
                            endDate |-> undefined, limit |-> optionLimit(l) ]),
             before |-> usage]
  /\ console' = <<>>
  /\ UNCHANGED <<usage, lastId, priceVars, pending, gen>>

MaxListed == 11

\* The add command, each run at a later instant than the one before.
ListAdd(provider, model, tokens) ==
  LET cost == calculateCost(1, provider, model, tokens[1], tokens[2])
  IN  /\ out = NoOut
      /\ lastId < MaxListed
      /\ cost.kind = "number"
      /\ usage' = addUsage(usage, lastId + 1,
                     [ provider |-> provider, model |-> model,
                       promptTokens |-> tokens[1], completionTokens |-> tokens[2],
                       totalTokens |-> tokens[1] + tokens[2],
                       cost |-> cost.value, timestamp |-> toISOString(lastId + 1),
                       notes |-> undefined ])
      /\ lastId' = lastId + 1
      /\ console' = <<>>
      /\ UNCHANGED <<out, priceVars, pending, gen>>

\* The values given to -l: none, '1', '5', '10', '50'.
ListLimits ==
  { undefined, Some(<<"1">>), Some(<<"5">>), Some(<<"1", "0">>), Some(<<"5", "0">>) }

ListInit == StoreInit

ListNext ==
  \/ \E p \in FrameProviders, k \in CliTokens : ListAdd(p, gpt4o, k)
  \/ \E p \in Optional({openaiName}), l \in ListLimits : CliList(p, l)
  \/ Return

----------------------------------------------------------------------------
(* getStats over costs as the REAL column holds them: IEEE 754 doubles. A
   positive double is its exponent and the bits of its significand, the leading
   1 first; the sums of getStats are double additions, rounded to nearest, ties
   to even. *)

\* The four bits of a hexadecimal digit.
bitsOf(h) == << h \div 8, (h \div 4) % 2, (h \div 2) % 2, h % 2 >>

RECURSIVE hexBits(_)
hexBits(hs) == IF hs = <<>> THEN <<>> ELSE bitsOf(Head(hs)) \o hexBits(Tail(hs))

\* The double 1.fraction * 2^exp, fraction given as its thirteen hex digits.
double(exp, fraction) == [exp |-> exp, man |-> <<1>> \o hexBits(fraction)]

\* The number 0 the sums start from.
zeroDouble == [exp |-> 0, man |-> <<>>]

zeros(n) == [i \in 1..n |-> 0]

\* The sum of two bit strings of one length and a carry, one bit longer.
RECURSIVE addBits(_, _, _)
addBits(x, y, c) ==
  IF x = <<>> THEN <<c>>
  ELSE LET n == Len(x)
           s == x[n] + y[n] + c
       IN  IF s >= 2
             THEN addBits(SubSeq(x, 1, n - 1), SubSeq(y, 1, n - 1), 1) \o <<s - 2>>
             ELSE addBits(SubSeq(x, 1, n - 1), SubSeq(y, 1, n - 1), 0) \o <<s>>

\* The exact sum s (leading bit 1), whose last bit has the weight of the last
\* bit of a double of exponent exp, rounded to a significand of `width` bits:
\* to nearest, ties to even.
roundToEven(s, exp, width) ==
  LET drop == Len(s) - width
      kept == SubSeq(s, 1, width)
      rest == SubSeq(s, width + 1, Len(s))
      up   == /\ drop > 0
              /\ rest[1] = 1
              /\ \/ \E i \in 2..drop : rest[i] = 1
                 \/ kept[width] = 1
      inc  == addBits(kept, zeros(width - 1) \o <<1>>, 0)
  IN  IF ~up THEN [exp |-> exp + drop, man |-> kept]
      ELSE IF inc[1] = 1 THEN [exp |-> exp + drop + 1, man |-> SubSeq(inc, 1, width)]
      ELSE [exp |-> exp + drop, man |-> Tail(inc)]

\* a + b on doubles that are 0 or positive.
fadd(a, b) ==
  IF a.man = <<>> THEN b
  ELSE IF b.man = <<>> THEN a
  ELSE LET hi  == IF a.exp >= b.exp THEN a ELSE b
           lo  == IF a.exp >= b.exp THEN b ELSE a
           d   == hi.exp - lo.exp
           sum == addBits(hi.man \o zeros(d), zeros(d) \o lo.man, 0)
           s   == IF Head(sum) = 0 THEN Tail(sum) ELSE sum
       IN  roundToEven(s, lo.exp, Len(hi.man))

zeroEntryDouble == [requests |-> 0, tokens |-> 0, cost |-> zeroDouble]

\* The body of "By provider" / "By model" in getStats, the cost a double.
accumulateDouble(obj, key, row) ==
  IF key \notin DOMAIN obj /\ key \in inheritedProps
    THEN obj
    ELSE LET created == IF key \in DOMAIN obj
                          THEN obj
                          ELSE [k \in DOMAIN obj \cup {key} |->
                                  IF k = key THEN zeroEntryDouble ELSE obj[k]]
         IN  [created EXCEPT ![key] = [requests |-> @.requests + 1,
                                       tokens |-> @.tokens + row.totalTokens,
                                       cost |-> fadd(@.cost, row.cost)]]

\* The for loop of getStats over rows[i..], the costs doubles.
RECURSIVE statsLoopDouble(_, _, _)
statsLoopDouble(rows, i, stats) ==
  IF i > Len(rows) THEN stats
  ELSE statsLoopDouble(rows, i + 1,
         [ totalRequests |-> stats.totalRequests,
           totalTokens |-> stats.totalTokens + rows[i].totalTokens,
           totalCost |-> fadd(stats.totalCost, rows[i].cost),
           byProvider |-> accumulateDouble(stats.byProvider, rows[i].provider, rows[i]),
           byModel |-> accumulateDouble(stats.byModel, modelKey(rows[i]), rows[i]) ])

\* The loop of getStats over the rows the SELECT returned.
aggregate(rows) ==
  statsLoopDouble(rows, 1,
    [ totalRequests |-> Len(rows), totalTokens |-> 0, totalCost |-> zeroDouble,
      byProvider |-> <<>>, byModel |-> <<>> ])

\* getStats(filters), the costs doubles.
getStatsDouble(table, filters) == aggregate(selectSeq(table, filters))

\* calculateCost('openai', 'gpt-4o', 1000, 0) = 0.0025 = 0x3F647AE147AE147B,
\* calculateCost('openai', 'gpt-4o', 2000, 0) = 0.005  = 0x3F747AE147AE147B,
\* calculateCost('openai', 'gpt-4o', 3000, 0) = 0.0075 = 0x3F7EB851EB851EB8.
cost1000 == double(-9, <<4, 7, 10, 14, 1, 4, 7, 10, 14, 1, 4, 7, 11>>)
cost2000 == double(-8, <<4, 7, 10, 14, 1, 4, 7, 10, 14, 1, 4, 7, 11>>)
cost3000 == double(-8, <<14, 11, 8, 5, 1, 14, 11, 8, 5, 1, 14, 11, 8>>)

\* The calls recorded: prompt tokens and the cost calculateCost gives for them.
AggCalls == { <<1000, cost1000>>, <<2000, cost2000>>, <<3000, cost3000>> }

MaxRows == 3

\* addUsage of one call's record, its cost a double.
AddUsageDouble(provider, model, call, t) ==
  /\ out = NoOut
  /\ lastId < MaxRows
  /\ usage' = addUsage(usage, lastId + 1,
                 [ provider |-> provider, model |-> model,
                   promptTokens |-> call[1], completionTokens |-> 0,
                   totalTokens |-> call[1], cost |-> call[2],
                   timestamp |-> toISOString(t), notes |-> undefined ])
  /\ lastId' = lastId + 1
  /\ console' = <<>>
  /\ UNCHANGED <<out, priceVars, pending, gen>>

\* getStats(filters) over the stored doubles.
GetStatsDouble(filters) ==
  /\ out = NoOut
  /\ out' = [op |-> "getStats", args |-> filters,
             rows |-> selectSeq(usage, filters),
             result |-> getStatsDouble(usage, filters), before |-> usage]
  /\ console' = <<>>
  /\ UNCHANGED <<usage, lastId, priceVars, pending, gen>>

AggInit == StoreInit

AggNext ==
  \/ \E c \in AggCalls, t \in Instants : AddUsageDouble(openaiName, gpt4o, c, t)
  \/ \E p \in Optional({openaiName}) :
       GetStatsDouble([provider |-> p, startDate |-> undefined, endDate |-> undefined])
  \/ Return

----------------------------------------------------------------------------
(* The entry points that store a usage record once an API call has resolved:
   src/src/wrappers.ts, src/src/middleware.ts, src/src/extensions.ts *)

\* x || 0 on an optional number.
orZero(o) == IF truthyNumber(o) THEN o[1] ELSE 0

\* A tracking block that passes the two counts to addUsage in the wrong order.
tryAddUsageSwapped(table, id, provider, model, promptTokens, completionTokens, totalTokens, notes, t) ==
  IF promptTokens = undefined \/ completionTokens = undefined \/ totalTokens = undefined
    THEN table
  ELSE LET cost == calculateCost(1, provider, model, promptTokens[1], completionTokens[1])
       IN  IF cost.kind # "number"
             THEN table
             ELSE addUsage(table, id,
                    [ provider |-> provider, model |-> model,
                      promptTokens |-> completionTokens[1],
                      completionTokens |-> promptTokens[1],
                      totalTokens |-> totalTokens[1],
                      cost |-> cost.value, timestamp |-> toISOString(t),
                      notes |-> notes ])

\* The try { calculateCost(...); addUsage({...}) } catch { console.warn } that
\* every entry point ends with: the table after it. A count that is undefined
\* cannot be bound and a cost that is NaN is stored as NULL in a NOT NULL column,
\* so addUsage throws; a throw of calculateCost or of addUsage is caught and
\* nothing is inserted.
tryAddUsage(table, id, provider, model, promptTokens, completionTokens, totalTokens, notes, t) ==
  IF promptTokens = undefined \/ completionTokens = undefined \/ totalTokens = undefined
    THEN table
  ELSE LET cost == calculateCost(1, provider, model, promptTokens[1], completionTokens[1])
       IN  IF cost.kind # "number"
             THEN table
             ELSE addUsage(table, id,
                    [ provider |-> provider, model |-> model,
                      promptTokens |-> promptTokens[1],
                      completionTokens |-> completionTokens[1],
                      totalTokens |-> totalTokens[1],
                      cost |-> cost.value, timestamp |-> toISOString(t),
                      notes |-> notes ])

\* a + b on two optional numbers (undefined when either is: NaN cannot be bound).
plus(a, b) == IF a = undefined \/ b = undefined THEN undefined ELSE Some(a[1] + b[1])

\* console.warn('[aitoken-cli] Failed to track usage:', ...) of the catch blocks.
FailedToTrack == [kind |-> "Failed to track usage"]

\* What an entry point was called with: its name, its provider and model, the
\* response its API call resolved with and its notes argument.
Call(op, provider, model, response, notes) ==
  [op |-> op, provider |-> provider, model |-> model, response |-> response,
   notes |-> notes]

\* A tracking block without its catch: a throw reaches the caller in place of
\* the response.
StoreTrackedUncaught(call, provider, model, promptTokens, completionTokens, totalTokens, t) ==
  /\ out = NoOut
  /\ lastId < MaxInserts
  /\ usage' = tryAddUsage(usage, lastId + 1, provider, model,
                          promptTokens, completionTokens, totalTokens, call.notes, t)
  /\ lastId' = IF usage' = usage THEN lastId ELSE lastId + 1
  /\ console' = <<>>
  /\ out' = [op |-> call.op, args |-> call,
             result |-> IF usage' = usage THEN TypeError ELSE call.response,
             before |-> usage]
  /\ UNCHANGED priceVars

\* The tracking block of an entry point, on the store and the console: the row is
\* inserted, or the throw is caught and reported; then the entry point returns
\* the response.
StoreTracked(call, provider, model, promptTokens, completionTokens, totalTokens, t) ==
  /\ out = NoOut
  /\ lastId < MaxInserts
  /\ usage' = tryAddUsage(usage, lastId + 1, provider, model,
                          promptTokens, completionTokens, totalTokens, call.notes, t)
  /\ lastId' = IF usage' = usage THEN lastId ELSE lastId + 1
  /\ console' = IF usage' = usage THEN <<FailedToTrack>> ELSE <<>>
  /\ out' = [op |-> call.op, args |-> call, result |-> call.response,
             before |-> usage]
  /\ UNCHANGED priceVars

\* An entry point that returns without reaching addUsage: nothing is stored and
\* nothing is reported.
StoreUntracked(call) ==
  /\ out = NoOut
  /\ out' = [op |-> call.op, args |-> call, result |-> call.response,
             before |-> usage]
  /\ console' = <<>>
  /\ UNCHANGED <<usage, lastId, priceVars>>

\* The store after an entry point has run its tracking block.
Tracked(call, provider, model, promptTokens, completionTokens, totalTokens, t) ==
  /\ StoreTracked(call, provider, model, promptTokens, completionTokens, totalTokens, t)
  /\ UNCHANGED <<pending, gen>>

\* o?.name on an optional record: undefined when o is.
field(o, name) == IF o = undefined THEN undefined ELSE o[1][name]

\* trackedGPT without stream: { prompt_tokens, completion_tokens, total_tokens } =
\* response.usage (a caught throw when usage is undefined), and total_tokens is
\* stored as the API reported it.
TrackedGPT(model, response, notes, t) ==
  Tracked(Call("trackedGPT", openaiName, model, response, notes),
          openaiName, model,
          field(response.usage, "prompt_tokens"),
          field(response.usage, "completion_tokens"),
          field(response.usage, "total_tokens"), t)

\* trackedClaude without stream: totalTokens is input_tokens + output_tokens.
TrackedClaude(model, response, notes, t) ==
  Tracked(Call("trackedClaude", anthropicName, model, response, notes),
          anthropicName, model,
          field(response.usage, "input_tokens"),
          field(response.usage, "output_tokens"),
          plus(field(response.usage, "input_tokens"),
               field(response.usage, "output_tokens")), t)

\* usageMetadata?.promptTokenCount || 0 and usageMetadata?.candidatesTokenCount || 0
googlePrompt(response) == orZero(field(response.usageMetadata, "promptTokenCount"))
googleCompletion(response) == orZero(field(response.usageMetadata, "candidatesTokenCount"))

\* trackedGemini: the counts default to 0 and their sum is stored.
TrackedGemini(model, response, notes, t) ==
  Tracked(Call("trackedGemini", googleName, model, response, notes),
          googleName, model, Some(googlePrompt(response)),
          Some(googleCompletion(response)),
          Some(googlePrompt(response) + googleCompletion(response)), t)

\* trackedAI: extractTokens(response) gives the two counts (or throws, which is
\* caught: extracted is then undefined) and their sum is stored.
TrackedAI(provider, model, extracted, notes, t) ==
  Tracked(Call("trackedAI", provider, model, extracted, notes),
          provider, model,
          field(extracted, "promptTokens"), field(extracted, "completionTokens"),
          plus(field(extracted, "promptTokens"), field(extracted, "completionTokens")), t)

\* The format trackResponse recognises in a response and what it reads from it:
\* the first format whose marker is truthy gives the counts and, for the OpenAI
\* and Anthropic formats, the model (response.model || config.model).
extractUsage(model, response) ==
  LET usedModel == IF truthyString(response.model) THEN response.model[1] ELSE model
  IN  IF truthyNumber(field(response.usage, "prompt_tokens"))
        THEN [ known |-> TRUE, model |-> usedModel,
               promptTokens |-> field(response.usage, "prompt_tokens"),
               completionTokens |-> field(response.usage, "completion_tokens") ]
      ELSE IF truthyNumber(field(response.usage, "input_tokens"))
        THEN [ known |-> TRUE, model |-> usedModel,
               promptTokens |-> field(response.usage, "input_tokens"),
               completionTokens |-> field(response.usage, "output_tokens") ]
      ELSE IF response.usageMetadata # undefined
        THEN [ known |-> TRUE, model |-> model,
               promptTokens |-> Some(googlePrompt(response)),
               completionTokens |-> Some(googleCompletion(response)) ]
      ELSE [ known |-> FALSE, model |-> model,
             promptTokens |-> undefined, completionTokens |-> undefined ]

\* trackResponse(response, config) on the store and the console: an unknown
\* format returns before anything is stored; otherwise the sum of the two counts
\* is stored as totalTokens.
trackResponse(call, response, t) ==
  LET e == extractUsage(call.model, response)
  IN  IF e.known
        THEN StoreTracked(call, call.provider, e.model, e.promptTokens,
                          e.completionTokens,
                          plus(e.promptTokens, e.completionTokens), t)
        ELSE StoreUntracked(call)

\* if (response && typeof response === 'object') trackResponse(response, config)
TrackResponse(call, response, t) ==
  /\ out = NoOut
  /\ IF response.object THEN trackResponse(call, response, t) ELSE StoreUntracked(call)
  /\ UNCHANGED <<pending, gen>>

\* The config a method reached through depth property reads of a tracked client
\* is wrapped with: every nested object is proxied by createTrackedClient(original,
\* config) again.
RECURSIVE createTrackedClient(_, _)
createTrackedClient(config, depth) ==
  IF depth <= 1 THEN config ELSE createTrackedClient(config, depth - 1)

\* A method call made through a client of createTrackedClient: the apply trap
\* awaits the method, tracks its response and returns it.
ProxyApply(depth, provider, model, response, notes, t) ==
  LET config == createTrackedClient([provider |-> provider, model |-> model,
                                     notes |-> notes], depth)
  IN  TrackResponse(Call("createTrackedClient", config.provider, config.model,
                         response, config.notes), response, t)

\* A call of the function withTracking(fn, config) returns.
WithTracking(provider, model, response, notes, t) ==
  TrackResponse(Call("withTracking", provider, model, response, notes), response, t)

\* TrackedOpenAI's chat.completions.create without stream: as trackedGPT.
TrackedOpenAIChat(model, response, notes, t) ==
  Tracked(Call("TrackedOpenAI.chat", openaiName, model, response, notes),
          openaiName, model,
          field(response.usage, "prompt_tokens"),
          field(response.usage, "completion_tokens"),
          field(response.usage, "total_tokens"), t)

\* TrackedOpenAI's embeddings.create: promptTokens is usage?.prompt_tokens || 0,
\* completionTokens is 0 and totalTokens is usage?.total_tokens || promptTokens.
TrackedOpenAIEmbeddings(model, response, notes, t) ==
  LET promptTokens == orZero(field(response.usage, "prompt_tokens"))
      totalTokens == IF truthyNumber(field(response.usage, "total_tokens"))
                       THEN response.usage[1].total_tokens[1] ELSE promptTokens
  IN  Tracked(Call("TrackedOpenAI.embeddings", openaiName, model, response, notes),
              openaiName, model, Some(promptTokens), Some(0), Some(totalTokens), t)

\* TrackedAnthropic's messages.create without stream: as trackedClaude.
TrackedAnthropicCreate(model, response, notes, t) ==
  Tracked(Call("TrackedAnthropic", anthropicName, model, response, notes),
          anthropicName, model,
          field(response.usage, "input_tokens"),
          field(response.usage, "output_tokens"),
          plus(field(response.usage, "input_tokens"),
               field(response.usage, "output_tokens")), t)

\* TrackedGoogleAI's wrapped generateContent: as trackedGemini.
TrackedGoogleGenerate(model, response, notes, t) ==
  Tracked(Call("TrackedGoogleAI", googleName, model, response, notes),
          googleName, model, Some(googlePrompt(response)),
          Some(googleCompletion(response)),
          Some(googlePrompt(response) + googleCompletion(response)), t)

\* The usage objects an API answers with: none, OpenAI's three counts (consistent,
\* with a total that is not the sum, without completion_tokens as an embeddings
\* response has it, all 0) and Anthropic's two (both, the output count missing,
\* and an input count of 0 as when the whole prompt is read from the cache).
openaiUsage(p, c, total) ==
  Some([ prompt_tokens |-> p, completion_tokens |-> c, total_tokens |-> total,
         input_tokens |-> undefined, output_tokens |-> undefined ])

anthropicUsage(i, o) ==
  Some([ prompt_tokens |-> undefined, completion_tokens |-> undefined,
         total_tokens |-> undefined, input_tokens |-> i, output_tokens |-> o ])

Usages ==
  { undefined,
    openaiUsage(Some(3), Some(2), Some(5)),
    openaiUsage(Some(3), Some(2), Some(6)),
    openaiUsage(Some(3), undefined, Some(3)),
    openaiUsage(Some(0), Some(0), Some(0)),
    anthropicUsage(Some(4), Some(1)),
    anthropicUsage(Some(4), undefined),
    anthropicUsage(Some(0), Some(1)) }

\* response.response?.usageMetadata: none, both counts, one count.
UsageMetadatas ==
  { undefined,
    Some([promptTokenCount |-> Some(2), candidatesTokenCount |-> Some(1)]),
    Some([promptTokenCount |-> Some(2), candidatesTokenCount |-> undefined]) }

\* The objects an API call resolves with: one format at a time, or none.
Responses ==
  { [object |-> TRUE, usage |-> u, usageMetadata |-> undefined, model |-> m] :
      <<u, m>> \in Usages \X {undefined, Some(gpt4oDated)} }
  \cup { [object |-> TRUE, usage |-> undefined, usageMetadata |-> g,
          model |-> undefined] : g \in UsageMetadatas }

\* A method of the client that resolves with no object (a string, undefined).
NoObject ==
  [object |-> FALSE, usage |-> undefined, usageMetadata |-> undefined,
   model |-> undefined]

\* What extractTokens returns to trackedAI (undefined: it threw).
Extracted ==
  { undefined,
    Some([promptTokens |-> Some(3), completionTokens |-> Some(2)]),
    Some([promptTokens |-> Some(3), completionTokens |-> undefined]) }

\* params.model / config.model of a tracked call.
TrackModels == { gpt4o, claude35Sonnet }

\* The Provider type of src/src/pricing.ts ('other' stands for the rest).
TrackProviders == { openaiName, otherName }

\* client.chat.completions.create is reached through three property reads.
MaxDepth == 3

TrackInit == StoreInit

\* The clock's reading at a tracked call: the instant after the last row's.
nextInstant == { lastId + 1 }

\* The responses without a model field, as the wrappers read them.
WrapperResponses == { r \in Responses : r.model = undefined }

\* Every entry point, called without notes.
TrackNext ==
  \/ \E m \in TrackModels, r \in WrapperResponses, t \in nextInstant :
       TrackedGPT(m, r, undefined, t)
  \/ \E m \in TrackModels, r \in WrapperResponses, t \in nextInstant :
       TrackedClaude(m, r, undefined, t)
  \/ \E m \in TrackModels, r \in WrapperResponses, t \in nextInstant :
       TrackedGemini(m, r, undefined, t)
  \/ \E p \in TrackProviders, m \in TrackModels, e \in Extracted, t \in nextInstant :
       TrackedAI(p, m, e, undefined, t)
  \/ \E d \in 1..MaxDepth, p \in TrackProviders, m \in TrackModels,
          r \in Responses \cup {NoObject}, t \in nextInstant :
       ProxyApply(d, p, m, r, undefined, t)
  \/ \E p \in TrackProviders, m \in TrackModels, r \in Responses \cup {NoObject},
          t \in nextInstant :
       WithTracking(p, m, r, undefined, t)
  \/ \E m \in TrackModels, r \in WrapperResponses, t \in nextInstant :
       TrackedOpenAIChat(m, r, undefined, t)
  \/ \E m \in TrackModels, r \in WrapperResponses, t \in nextInstant :
       TrackedOpenAIEmbeddings(m, r, undefined, t)
  \/ \E m \in TrackModels, r \in WrapperResponses, t \in nextInstant :
       TrackedAnthropicCreate(m, r, undefined, t)
  \/ \E m \in TrackModels, r \in WrapperResponses, t \in nextInstant :
       TrackedGoogleGenerate(m, r, undefined, t)
  \/ \E p \in TrackProviders, m \in TrackModels, k \in CliTokens, t \in nextInstant :
       CliAdd(p, m, k, undefined, t)
  \/ Return

\* The four wrappers of src/src/wrappers.ts, each called without stream for a
\* model of its provider.
WrapperInit == StoreInit

WrapperNext ==
  \/ \E r \in WrapperResponses, n \in Notes, t \in nextInstant :
       TrackedGPT(gpt4o, r, n, t)
  \/ \E r \in WrapperResponses, n \in Notes, t \in nextInstant :
       TrackedClaude(claude35Sonnet, r, n, t)
  \/ \E r \in WrapperResponses, n \in Notes, t \in nextInstant :
       TrackedGemini(gemini15Pro, r, n, t)
  \/ \E p \in TrackProviders, e \in Extracted, n \in Notes, t \in nextInstant :
       TrackedAI(p, gpt4o, e, n, t)
  \/ Return

\* Method calls through a client of createTrackedClient(client, config) and calls
\* of a function of withTracking(fn, config), for one config.
MiddlewareInit == StoreInit

MiddlewareNext ==
  \/ \E d \in 1..MaxDepth, r \in Responses \cup {NoObject}, n \in Notes,
          t \in nextInstant :
       ProxyApply(d, openaiName, gpt4o, r, n, t)
  \/ \E r \in Responses \cup {NoObject}, n \in Notes, t \in nextInstant :
       WithTracking(openaiName, gpt4o, r, n, t)
  \/ Return

\* BatchTracker: the calls of one tracker's track(fn), started together as in
\* Promise.all([tracker.track(...), ...]). Each call runs fn() and awaits it; when
\* the API call resolves, the rest of track runs to completion (trackResponse and
\* addUsage are synchronous), so the calls interleave only at their await.
BatchCalls == 1..MaxInserts

\* new BatchTracker('openai', 'gpt-4o')
batchConfig == [provider |-> openaiName, model |-> gpt4o, notes |-> undefined]

\* What the API calls of a batch resolve with: two chat completions with different
\* counts, an embeddings response (usage without completion_tokens), an object
\* without usage, and no object.
BatchResponses ==
  { [object |-> TRUE, usage |-> openaiUsage(Some(3), Some(2), Some(5)),
     usageMetadata |-> undefined, model |-> undefined],
    [object |-> TRUE, usage |-> openaiUsage(Some(7), Some(1), Some(8)),
     usageMetadata |-> undefined, model |-> undefined],
    [object |-> TRUE, usage |-> openaiUsage(Some(3), undefined, Some(3)),
     usageMetadata |-> undefined, model |-> undefined],
    [object |-> TRUE, usage |-> undefined, usageMetadata |-> undefined,
     model |-> undefined],
    NoObject }

BatchInit ==
  /\ usage = <<>>
  /\ lastId = 0
  /\ out = NoOut
  /\ q = NoQuery
  /\ qRet = NoReturn
  /\ qPc = "idle"
  /\ console = <<>>
  /\ pending = [i \in BatchCalls |-> [pc |-> "idle", response |-> NoObject]]
  /\ gen = NoStream

\* track(fn) is called: fn() starts the API call and track awaits it.
BatchTrack(i) ==
  /\ out = NoOut
  /\ pending[i].pc = "idle"
  /\ pending' = [pending EXCEPT ![i].pc = "awaiting"]
  /\ UNCHANGED <<usage, lastId, out, console, priceVars, gen>>

\* The API call of track call i resolves with response: the rest of track runs.
BatchResolve(i, response, t) ==
  LET call == Call("BatchTracker.track", batchConfig.provider, batchConfig.model,
                   response, batchConfig.notes)
  IN  /\ out = NoOut
      /\ pending[i].pc = "awaiting"
      /\ IF response.object
           THEN trackResponse(call, response, t)
           ELSE StoreUntracked(call)
      /\ pending' = [pending EXCEPT ![i] = [pc |-> "done", response |-> response]]
      /\ UNCHANGED gen

BatchNext ==
  \/ \E i \in BatchCalls : BatchTrack(i)
  \/ \E i \in BatchCalls, r \in BatchResponses, t \in nextInstant :
       BatchResolve(i, r, t)
  \/ Return

\* Every entry point that tracks a resolved API call, over few responses: one
\* with full OpenAI usage, one without completion_tokens, one without usage, one
\* with Google's usageMetadata, and (for the middleware) no object.
ContainResponses ==
  { r \in WrapperResponses :
      \/ r.usage \in { undefined, openaiUsage(Some(3), Some(2), Some(5)),
                       openaiUsage(Some(3), undefined, Some(3)) }
         /\ r.usageMetadata = undefined
      \/ r.usageMetadata = Some([promptTokenCount |-> Some(2),
                                 candidatesTokenCount |-> Some(1)]) }

ContainInit == BatchInit

ContainNext ==
  \/ \E r \in ContainResponses, t \in nextInstant : TrackedGPT(gpt4o, r, undefined, t)
  \/ \E r \in ContainResponses, t \in nextInstant :
       TrackedClaude(claude35Sonnet, r, undefined, t)
  \/ \E r \in ContainResponses, t \in nextInstant :
       TrackedGemini(gemini15Pro, r, undefined, t)
  \/ \E e \in Extracted, t \in nextInstant : TrackedAI(otherName, gpt4o, e, undefined, t)
  \/ \E r \in ContainResponses \cup {NoObject}, t \in nextInstant :
       ProxyApply(MaxDepth, openaiName, gpt4o, r, undefined, t)
  \/ \E r \in ContainResponses \cup {NoObject}, t \in nextInstant :
       WithTracking(openaiName, gpt4o, r, undefined, t)
  \/ \E i \in BatchCalls : BatchTrack(i)
  \/ \E i \in BatchCalls, r \in ContainResponses \cup {NoObject}, t \in nextInstant :
       BatchResolve(i, r, t)
  \/ Return

\* getStats and getUsage called with the same filters: each filter absent, ''
\* or a value, over records of two providers.
AgreeFilters ==
  [ provider : Optional({openaiName, <<>>}), startDate : Optional(FilterDates),
    endDate : Optional(FilterDates) ]

noLimit(filters) ==
  [ provider |-> filters.provider, startDate |-> filters.startDate,
    endDate |-> filters.endDate, limit |-> undefined ]

AgreeInit == StoreInit

AgreeNext ==
  \/ \E p \in FrameProviders, k \in CliTokens \cup { <<0, 0>> }, t \in Instants :
       CliAdd(p, gpt4o, k, undefined, t)
  \/ \E f \in AgreeFilters : GetUsage(noLimit(f))
  \/ \E f \in AgreeFilters : GetStats(f)
  \/ Return

\* The add command given one provider in two spellings, and the queries and the
\* clearing filtered by either spelling.
openaiMixed == <<"O", "p", "e", "n", "A", "I">>

NamingProviders == { openaiName, openaiMixed }

NamingInit == StoreInit

NamingNext ==
  \/ \E p \in NamingProviders, t \in Instants : CliAdd(p, gpt4o, <<1000, 500>>, undefined, t)
  \/ \E p \in Optional(NamingProviders) :
       GetUsage([provider |-> p, startDate |-> undefined, endDate |-> undefined,
                 limit |-> undefined])
  \/ \E p \in Optional(NamingProviders) :
       GetStats([provider |-> p, startDate |-> undefined, endDate |-> undefined])
  \/ \E p \in Optional(NamingProviders) : ClearUsage([provider |-> p, before |-> undefined])
  \/ Return

\* The add command given providers and models that contain '/': --provider and
\* --model are free text.
azureName == <<"a", "z", "u", "r", "e">>
azureOpenai == azureName \o <<"/">> \o openaiName
openaiGpt4o == openaiName \o <<"/">> \o gpt4o

KeyPairs == { <<azureOpenai, gpt4o>>, <<azureName, openaiGpt4o>>, <<azureName, gpt4o>> }

KeyInit == StoreInit

KeyNext ==
  \/ \E pr \in KeyPairs, t \in Instants : CliAdd(pr[1], pr[2], <<1000, 500>>, undefined, t)
  \/ \E p \in Optional({azureName}) :
       GetStats([provider |-> p, startDate |-> undefined, endDate |-> undefined])
  \/ Return

----------------------------------------------------------------------------
(* The CLI's stats command and displayStats *)

\* The quotient quot + r / totalCost with n more decimal digits, digit by digit, the
\* last one rounded to the nearest.
RECURSIVE tenths(_, _, _, _)
tenths(quot, r, totalCost, n) ==
  IF n = 0 THEN (IF 2 * r >= totalCost THEN quot + 1 ELSE quot)
  ELSE tenths(10 * quot + (10 * r) \div totalCost, (10 * r) % totalCost, totalCost, n - 1)

\* (data.cost / stats.totalCost) * 100 in tenths of a percent, as toFixed(1)
\* prints it (to the nearest tenth); 0 / 0 is NaN and x / 0 an infinity.
percentage(cost, totalCost) ==
  IF totalCost = 0
    THEN IF cost = 0 THEN [kind |-> "NaN", value |-> 0]
         ELSE [kind |-> "Infinity", value |-> 0]
    ELSE [kind |-> "number",
          value |-> tenths(cost \div totalCost, cost % totalCost, totalCost, 3)]

\* displayStats(stats), its "By Provider" table: one percentage per provider
\* when byProvider has a key, no table otherwise.
displayStats(stats) ==
  IF DOMAIN stats.byProvider # {}
    THEN [ p \in DOMAIN stats.byProvider |->
             percentage(stats.byProvider[p].cost, stats.totalCost) ]
    ELSE <<>>

\* subDays(new Date(), days).toISOString(), an instant being one day.
subDays(now, days) == IF now > days THEN now - days ELSE 0

\* The stats command: the filters are built from the truthy options, getStats is
\* called and its result displayed, or printed as JSON.
CliStats(provider, days, json, now) ==
  LET filters == [ provider |-> IF truthyString(provider) THEN provider ELSE undefined,
                   startDate |-> IF truthyNumber(days)
                                   THEN Some(toISOString(subDays(now, days[1])))
                                   ELSE undefined,
                   endDate |-> undefined ]
      stats == getStats(usage, filters)
  IN  /\ out = NoOut
      /\ out' = [ op |-> "stats",
                  args |-> [provider |-> provider, days |-> days, json |-> json],
                  result |-> stats,
                  displayed |-> ~json,
                  shares |-> IF json THEN <<>> ELSE displayStats(stats),
                  before |-> usage ]
      /\ console' = <<>>
      /\ UNCHANGED <<usage, lastId, priceVars, pending, gen>>

\* A model no price table of the provider knows: calculateCost returns 0.
myModel == <<"m", "y">>

ShareInit == StoreInit

ShareNext ==
  \/ \E p \in FrameProviders, m \in {gpt4o, myModel}, k \in CliTokens \cup { <<0, 0>> },
        t \in Instants :
       CliAdd(p, m, k, undefined, t)
  \/ \E p \in Optional({openaiName}), d \in Optional({1}), j \in BOOLEAN, now \in Instants :
       CliStats(p, d, j, now)
  \/ Return

----------------------------------------------------------------------------
(* Streaming calls: trackedGPT and trackedClaude with stream: true return an
   async generator that wraps the source stream. The generator runs only when
   its consumer asks for the next chunk; gen is that generator. *)

\* A chunk of an OpenAI stream: its usage field is absent (or null) or a usage
\* object.
OpenAIChunks ==
  { [type |-> "chunk", usage |-> u] :
      u \in { undefined, openaiUsage(Some(3), Some(2), Some(5)),
              openaiUsage(Some(7), undefined, undefined) } }

\* An event of an Anthropic stream: message_start carries message.usage,
\* message_delta carries usage; usage here is the one the wrapper looks at.
AnthropicEvents ==
  { [type |-> "message_start", usage |-> anthropicUsage(Some(3), Some(1))],
    [type |-> "message_start", usage |-> anthropicUsage(Some(0), Some(1))],
    [type |-> "content_block_delta", usage |-> undefined],
    [type |-> "message_delta", usage |-> anthropicUsage(undefined, Some(2))],
    [type |-> "message_delta", usage |-> anthropicUsage(undefined, Some(0))] }

MaxChunks == 2

\* The sequences of at most MaxChunks elements of a set.
SeqsUpTo(S) == UNION { [1..n -> S] : n \in 0..MaxChunks }

\* console.warn('[aitoken-cli] Failed to track streaming usage:', ...)
FailedToTrackStream == [kind |-> "Failed to track streaming usage"]

\* The generator when trackOpenAIStream / trackAnthropicStream has been called:
\* nothing of its body has run. source is what the source stream delivers and
\* fails says that it then throws instead of ending.
newStream(provider, model, notes, source, fails) ==
  [ pc |-> "suspended", provider |-> provider, model |-> model, notes |-> notes,
    source |-> source, fails |-> fails, yielded |-> <<>>,
    lastUsage |-> undefined, inputTokens |-> 0, outputTokens |-> 0,
    before |-> usage ]

\* A call with stream: true whose API call resolved with a stream: the wrapper
\* returns the generator.
StreamCall(provider, model, notes, source, fails) ==
  /\ out = NoOut
  /\ gen = NoStream
  /\ lastId < MaxInserts
  /\ gen' = newStream(provider, model, notes, source, fails)
  /\ console' = <<>>
  /\ UNCHANGED <<usage, lastId, out, priceVars, pending>>

TrackedGPTStream(model, notes, source, fails) ==
  StreamCall(openaiName, model, notes, source, fails)

TrackedClaudeStream(model, notes, source, fails) ==
  StreamCall(anthropicName, model, notes, source, fails)

\* A loop body that keeps the first usage it sees.
openaiChunkFirst(g, chunk) ==
  [g EXCEPT !.lastUsage = IF @ = undefined /\ chunk.usage # undefined THEN chunk.usage ELSE @,
            !.yielded = Append(@, chunk)]

\* The loop body of trackOpenAIStream: if (chunk.usage) lastUsage = chunk.usage;
\* yield chunk.
openaiChunk(g, chunk) ==
  [g EXCEPT !.lastUsage = IF chunk.usage # undefined THEN chunk.usage ELSE @,
            !.yielded = Append(@, chunk)]

\* The loop body of trackAnthropicStream.
anthropicEvent(g, event) ==
  [g EXCEPT !.inputTokens =
              IF event.type = "message_start" /\ event.usage # undefined
                THEN orZero(field(event.usage, "input_tokens")) ELSE @,
            !.outputTokens =
              IF event.type = "message_delta" /\ event.usage # undefined
                THEN orZero(field(event.usage, "output_tokens")) ELSE @,
            !.yielded = Append(@, event)]

\* A test that asks for both counts.
hasBothCounts(g) == g.inputTokens > 0 /\ g.outputTokens > 0

\* if (inputTokens > 0 || outputTokens > 0)
hasCounts(g) == g.inputTokens > 0 \/ g.outputTokens > 0

\* The code after the loop: the table with the stream's record, when there is
\* usage to record and the tracking block does not throw.
streamRecorded(g, table, id, t) ==
  IF g.provider = openaiName
    THEN IF g.lastUsage = undefined THEN table
         ELSE LET promptTokens == orZero(field(g.lastUsage, "prompt_tokens"))
                  completionTokens == orZero(field(g.lastUsage, "completion_tokens"))
              IN  tryAddUsage(table, id, openaiName, g.model, Some(promptTokens),
                              Some(completionTokens),
                              Some(promptTokens + completionTokens), g.notes, t)
    ELSE IF ~hasCounts(g) THEN table
         ELSE tryAddUsage(table, id, anthropicName, g.model, Some(g.inputTokens),
                          Some(g.outputTokens),
                          Some(g.inputTokens + g.outputTokens), g.notes, t)

\* Whether the code after the loop reaches its try block.
streamTracks(g) ==
  IF g.provider = openaiName THEN g.lastUsage # undefined ELSE hasCounts(g)

\* A generator that stores the record as soon as it has seen usage, before
\* yielding the chunk.
StreamNextEager(t) ==
  /\ out = NoOut
  /\ gen.pc = "suspended"
  /\ IF Len(gen.yielded) < Len(gen.source)
       THEN LET chunk == gen.source[Len(gen.yielded) + 1]
                g == IF gen.provider = openaiName
                       THEN openaiChunk(gen, chunk) ELSE anthropicEvent(gen, chunk)
            IN  /\ gen' = g
                /\ usage' = IF chunk.usage # undefined
                              THEN streamRecorded(g, usage, lastId + 1, t) ELSE usage
                /\ lastId' = IF usage' = usage THEN lastId ELSE lastId + 1
                /\ console' = <<>>
       ELSE /\ gen' = [gen EXCEPT !.pc = IF gen.fails THEN "thrown" ELSE "done"]
            /\ console' = <<>>
            /\ UNCHANGED <<usage, lastId>>
  /\ UNCHANGED <<out, priceVars, pending>>

\* The consumer asks for the next chunk: the generator runs to its next yield,
\* or, the source being exhausted, through the code after the loop to its end;
\* a throw of the source leaves the generator through the loop.
StreamNext(t) ==
  /\ out = NoOut
  /\ gen.pc = "suspended"
  /\ IF Len(gen.yielded) < Len(gen.source)
       THEN /\ gen' = IF gen.provider = openaiName
                        THEN openaiChunk(gen, gen.source[Len(gen.yielded) + 1])
                        ELSE anthropicEvent(gen, gen.source[Len(gen.yielded) + 1])
            /\ console' = <<>>
            /\ UNCHANGED <<usage, lastId>>
     ELSE IF gen.fails
       THEN /\ gen' = [gen EXCEPT !.pc = "thrown"]
            /\ console' = <<>>
            /\ UNCHANGED <<usage, lastId>>
     ELSE /\ gen' = [gen EXCEPT !.pc = "done"]
          /\ usage' = streamRecorded(gen, usage, lastId + 1, t)
          /\ lastId' = IF usage' = usage THEN lastId ELSE lastId + 1
          /\ console' = IF streamTracks(gen) /\ usage' = usage
                          THEN <<FailedToTrackStream>> ELSE <<>>
  /\ UNCHANGED <<out, priceVars, pending>>

\* The consumer leaves its loop early: the generator is closed at its yield and
\* the code after the loop does not run.
StreamReturn ==
  /\ out = NoOut
  /\ gen.pc = "suspended"
  /\ gen' = [gen EXCEPT !.pc = "returned"]
  /\ console' = <<>>
  /\ UNCHANGED <<usage, lastId, out, priceVars, pending>>

\* The consumer lets go of a generator that has ended.
StreamDrop ==
  /\ out = NoOut
  /\ gen.pc \in {"done", "returned", "thrown"}
  /\ gen' = NoStream
  /\ console' = <<>>
  /\ UNCHANGED <<usage, lastId, out, priceVars, pending>>

StreamInit == StoreInit

StreamNextStep ==
  \/ \E s \in SeqsUpTo(OpenAIChunks), f \in BOOLEAN :
       TrackedGPTStream(gpt4o, undefined, s, f)
  \/ \E s \in SeqsUpTo(AnthropicEvents), f \in BOOLEAN :
       TrackedClaudeStream(claude35Sonnet, undefined, s, f)
  \/ \E t \in nextInstant : StreamNext(t)
  \/ StreamReturn
  \/ StreamDrop

----------------------------------------------------------------------------
(* Claims about calculateCost *)

\* The models of the called provider, in declaration order (<<>> when the
\* lowercased provider is no key of the table).
qModels ==
  LET table == priceTable(q.table)
      pi == ownIndex(table, toLowerCase(q.provider))
  IN  IF pi = 0 THEN <<>> ELSE table[pi].models

qKnownProvider == ownIndex(priceTable(q.table), toLowerCase(q.provider)) # 0

qQueried == toLowerCase(q.model)

\* The dollars-times-10^9 that price pair p gives the call's token counts.
qPriced(p) == Number(q.tokens[1] * p.input + q.tokens[2] * p.output)

\* C1: a model string made of a known key k of the provider followed by a suffix
\* (a date, an alias) is priced with the price pair of k.
C1_SuffixFallback ==
  (qPc = "done" /\ qKnownProvider) =>
    \A i \in 1..Len(qModels) : \A s \in Suffixes :
      q.model = qModels[i].name \o s => qRet = qPriced(qModels[i])

C3_ExactMatch ==
  (qPc = "done" /\ qKnownProvider) =>
    \A i \in 1..Len(qModels) :
      qModels[i].name = qQueried => qRet = qPriced(qModels[i])

\* C3's case: the model is a declared key, an earlier-declared key with another
\* price is a substring of it, and the exact key priced the call.
C3_Witness ==
  /\ qPc = "done" /\ qKnownProvider
  /\ \E i, j \in 1..Len(qModels) :
       /\ j < i
       /\ qModels[i].name = qQueried
       /\ includes(qQueried, qModels[j].name)
       /\ qPriced(qModels[i]) # qPriced(qModels[j])
       /\ qRet = qPriced(qModels[i])

\* C4: an unknown provider, and a model of a known provider that neither is a key
\* nor includes one, cost exactly 0 and nothing is thrown.
C4_NotFoundZero ==
  ( /\ qPc = "done"
    /\ \/ ~qKnownProvider
       \/ /\ ownIndex(qModels, qQueried) = 0
          /\ \A i \in 1..Len(qModels) : ~includes(qQueried, qModels[i].name) )
  => qRet = Number(0)

\* The pair the call resolves: the exact key's, else the first included key's.
qResolved ==
  IF \E i \in 1..Len(qModels) : qModels[i].name = qQueried
    THEN { qModels[i] : i \in { h \in 1..Len(qModels) : qModels[h].name = qQueried } }
    ELSE { qModels[i] : i \in { h \in 1..Len(qModels) :
             /\ includes(qQueried, qModels[h].name)
             /\ \A j \in 1..(h - 1) : ~includes(qQueried, qModels[j].name) } }

qIs(provider, model, promptTokens, completionTokens) ==
  /\ q.provider = provider /\ q.model = model
  /\ q.tokens = <<promptTokens, completionTokens>>

\* C5: whenever a pair is resolved the cost is p * input + c * output (per
\* 1,000,000 tokens), unrounded; 0.105, 0.035 and 0.0595 dollars for the three
\* documented calls.
C5_CostFormula ==
  qPc = "done" =>
    /\ \A p \in qResolved :
         qRet = Number(q.tokens[1] * p.input + q.tokens[2] * p.output)
    /\ qIs(anthropicName, claude35Sonnet, 10000, 5000) => qRet = Number(105000000)
    /\ qIs(openaiName, gpt4o, 2500, 1500) => qRet = Number(35000000)
    /\ qIs(googleName, gemini15Pro, 8000, 3000) => qRet = Number(59500000)

\* C5's case: the documented Anthropic call was made and cost 0.105 dollars.
C5_Witness ==
  /\ qPc = "done"
  /\ qIs(anthropicName, claude35Sonnet, 10000, 5000)
  /\ qResolved # {}
  /\ qRet = Number(105000000)

\* C14: a call that resolves no price, because the provider is unknown or because
\* no key of the known provider is the model or is included in it, writes a
\* warning that names the unknown provider or model, and throws nothing.
C14_WarningOnNotFound ==
  ( /\ qPc = "done"
    /\ \/ ~qKnownProvider
       \/ /\ ownIndex(qModels, qQueried) = 0
          /\ \A i \in 1..Len(qModels) : ~includes(qQueried, qModels[i].name) )
  => /\ qRet.kind # "TypeError"
     /\ Len(console) > 0
     /\ \A i \in 1..Len(console) :
          IF qKnownProvider
            THEN console[i].kind = "Unknown model" /\ console[i].model = q.model
            ELSE console[i].kind = "Unknown provider" /\ console[i].provider = q.provider

\* String.prototype.toUpperCase.
upperChar(ch) ==
  IF \E i \in 1..Len(lowerCase) : lowerCase[i] = ch
    THEN upperCase[CHOOSE i \in 1..Len(lowerCase) : lowerCase[i] = ch]
    ELSE ch

toUpperCase(s) == [i \in 1..Len(s) |-> upperChar(s[i])]

\* The string in upper case and in lower case.
recasings(s) == { toUpperCase(s), toLowerCase(s) }

\* C18: calculateCost returns the same for the provider and the model of the
\* call written in upper case or in lower case, in every combination, whether the
\* model is a key of the provider or only includes one.
C18_CaseInsensitivity ==
  qPc = "done" =>
    \A p \in recasings(q.provider) \cup {q.provider} :
      \A m \in recasings(q.model) \cup {q.model} :
        calculateCost(q.table, p, m, q.tokens[1], q.tokens[2]) = qRet

\* C18's case: 'OpenAI' and a dated gpt-4o name, priced through the substring
\* fallback, cost the same as 'OPENAI' and the name in upper case.
C18_Witness ==
  /\ qPc = "done"
  /\ q.provider = <<"O", "p", "e", "n", "A", "I">>
  /\ q.model = gpt4oDated
  /\ q.tokens = <<2500, 1500>>
  /\ qRet.kind = "number"
  /\ qRet.value > 0
  /\ exactIndex(priceTable(q.table)[ownIndex(priceTable(q.table), openaiName)].models,
                toLowerCase(q.model)) = 0
  /\ toUpperCase(q.model) # q.model
  /\ calculateCost(q.table, toUpperCase(q.provider), toUpperCase(q.model), 2500, 1500) = qRet

\* C19: every price of the table is non-negative, and a call with non-negative
\* token counts returns a number that is at least 0, for every provider and
\* model string.
C19_NonNegativeCost ==
  /\ \A i \in 1..Len(pricing) : \A j \in 1..Len(pricing[i].models) :
       pricing[i].models[j].input >= 0 /\ pricing[i].models[j].output >= 0
  /\ (qPc = "done" /\ q.tokens[1] >= 0 /\ q.tokens[2] >= 0)
       => (qRet.kind = "number" /\ qRet.value >= 0)

----------------------------------------------------------------------------
(* Claims about the store's queries *)

\* An optional argument was supplied, whatever its value.
supplied(o) == o # undefined

\* The sum of f[k].field over the keys of f.
RECURSIVE sumRequests(_)
sumRequests(f) ==
  IF DOMAIN f = {} THEN 0
  ELSE LET k == CHOOSE x \in DOMAIN f : TRUE
       IN  f[k].requests + sumRequests([x \in DOMAIN f \ {k} |-> f[x]])

RECURSIVE sumTokens(_)
sumTokens(f) ==
  IF DOMAIN f = {} THEN 0
  ELSE LET k == CHOOSE x \in DOMAIN f : TRUE
       IN  f[k].tokens + sumTokens([x \in DOMAIN f \ {k} |-> f[x]])

RECURSIVE sumCost(_)
sumCost(f) ==
  IF DOMAIN f = {} THEN 0
  ELSE LET k == CHOOSE x \in DOMAIN f : TRUE
       IN  f[k].cost + sumCost([x \in DOMAIN f \ {k} |-> f[x]])

\* The sums of totalTokens and of cost over a set of rows (rows differ by id).
RECURSIVE rowTokens(_)
rowTokens(rows) ==
  IF rows = {} THEN 0
  ELSE LET r == CHOOSE x \in rows : TRUE
       IN  r.totalTokens + rowTokens(rows \ {r})

RECURSIVE rowCost(_)
rowCost(rows) ==
  IF rows = {} THEN 0
  ELSE LET r == CHOOSE x \in rows : TRUE
       IN  r.cost + rowCost(rows \ {r})

\* C6: in every getStats result, totalRequests is the number of aggregated rows
\* and the sum of the requests of byProvider and of byModel; totalTokens and
\* totalCost are the rows' sums and the sums of byProvider's and byModel's.
C6_StatsSums ==
  out.op = "getStats" =>
    LET st == out.result
        rows == selectRows(out.before, out.args)
    IN  /\ st.totalRequests = Cardinality(rows)
        /\ st.totalRequests = sumRequests(st.byProvider)
        /\ st.totalRequests = sumRequests(st.byModel)
        /\ st.totalTokens = rowTokens(rows)
        /\ st.totalTokens = sumTokens(st.byProvider)
        /\ st.totalTokens = sumTokens(st.byModel)
        /\ st.totalCost = rowCost(rows)
        /\ st.totalCost = sumCost(st.byProvider)
        /\ st.totalCost = sumCost(st.byModel)

\* A row satisfies every supplied filter of a getUsage call: provider equal,
\* timestamp >= startDate, timestamp <= endDate.
satisfies(row, filters) ==
  /\ supplied(filters.provider) => row.provider = filters.provider[1]
  /\ supplied(filters.startDate) => textLeq(filters.startDate[1], row.timestamp)
  /\ supplied(filters.endDate) => textLeq(row.timestamp, filters.endDate[1])

rowsOf(table) == { table[i] : i \in 1..Len(table) }

\* C7: without a limit, getUsage returns exactly the stored rows that satisfy
\* every supplied filter, each once.
C7_QueryFilter ==
  (out.op = "getUsage" /\ ~supplied(out.args.limit)) =>
    /\ rowsOf(out.result) = { r \in rowsOf(out.before) : satisfies(r, out.args) }
    /\ Cardinality(rowsOf(out.result)) = Len(out.result)

\* C8: getUsage returns rows newest first, and with a limit n supplied it returns
\* the first n of the matching rows in that order (all when fewer match), never
\* more than n.
C8_OrderAndLimit ==
  out.op = "getUsage" =>
    LET res == out.result
        matching == selectRows(out.before, out.args)
    IN  /\ \A i \in 1..(Len(res) - 1) : textLeq(res[i + 1].timestamp, res[i].timestamp)
        /\ rowsOf(res) \subseteq matching
        /\ Cardinality(rowsOf(res)) = Len(res)
        /\ supplied(out.args.limit) =>
             /\ Len(res) <= out.args.limit[1]
             /\ Len(res) = IF Cardinality(matching) < out.args.limit[1]
                              THEN Cardinality(matching) ELSE out.args.limit[1]
             /\ \A r \in matching \ rowsOf(res) : \A i \in 1..Len(res) :
                  textLeq(r.timestamp, res[i].timestamp)

\* A row satisfies every supplied filter of a clearUsage call: provider equal,
\* timestamp strictly before filters.before.
targeted(row, filters) ==
  /\ supplied(filters.provider) => row.provider = filters.provider[1]
  /\ supplied(filters.before) => textLess(row.timestamp, filters.before[1])

\* The rows of a table that are in a set, in table order.
RECURSIVE keepRows(_, _)
keepRows(table, keep) ==
  IF table = <<>> THEN <<>>
  ELSE IF Head(table) \in keep
    THEN <<Head(table)>> \o keepRows(Tail(table), keep)
  ELSE keepRows(Tail(table), keep)

\* C9: clearUsage removes exactly the rows that satisfy every supplied filter
\* (all rows when none is supplied), returns how many it removed and leaves the
\* other rows as they were.
C9_BulkDelete ==
  out.op = "clearUsage" =>
    LET gone == { r \in rowsOf(out.before) : targeted(r, out.args) }
    IN  /\ usage = keepRows(out.before, rowsOf(out.before) \ gone)
        /\ out.result = Cardinality(gone)

\* C10: every stored row has totalTokens = promptTokens + completionTokens,
\* whichever entry point stored it.
C10_RecordInvariant ==
  \A i \in 1..Len(usage) :
    usage[i].totalTokens = usage[i].promptTokens + usage[i].completionTokens

\* table is sub with some rows left out, the others in the same order.
isSubsequence(sub, table) == keepRows(table, rowsOf(sub)) = sub

\* The ids of the rows of a table.
idsOf(table) == { table[i].id : i \in 1..Len(table) }

\* One step leaves every record that stays stored as it was: the row stored
\* under an id is the same row, in every field, before and after.
recordsKept ==
  \A i \in 1..Len(usage) : \A j \in 1..Len(usage') :
    usage'[j].id = usage[i].id => usage'[j] = usage[i]

\* C15: a stored record never changes while it remains stored. Every step
\* either leaves the table as it is, or is an insertion that appends exactly one
\* row under an id no stored row has, or is a deletion (clearUsage, the clear
\* command) that only leaves rows out; getUsage, getStats and calculateCost leave
\* the table as it is.
C15_RecordImmutability ==
  [][ /\ recordsKept
      /\ \/ usage' = usage
         \/ /\ Len(usage') = Len(usage) + 1
            /\ SubSeq(usage', 1, Len(usage)) = usage
            /\ usage'[Len(usage')].id \notin idsOf(usage)
            /\ out' = NoOut
         \/ /\ out'.op \in {"clearUsage", "clear"}
            /\ isSubsequence(usage', usage)
      /\ (out = NoOut /\ out'.op \in {"getUsage", "getStats", "calculateCost"})
           => usage' = usage ]_vars

\* C15's case: a deletion removed one of two stored records and the other is
\* still stored, with every field as addUsage stored it.
C15_Witness ==
  /\ out.op = "clearUsage"
  /\ Len(out.before) = 2
  /\ Len(usage) = 1
  /\ \E i \in 1..2 : out.before[i] = usage[1] /\ usage[1].notes # null

\* C16: the clear command run without --yes leaves the stored records as they
\* were, whatever --provider and --before are; run with --yes and no filter it
\* deletes every record.
C16_ClearRequiresYes ==
  out.op = "clear" =>
    /\ ~out.args.yes => usage = out.before
    /\ (out.args.yes /\ out.args.provider = undefined /\ out.args.before = undefined)
         => usage = <<>>

\* C16's case: clear was run without --yes, with a --before date later than a
\* stored record's timestamp, and the record is still stored.
C16_Witness ==
  /\ out.op = "clear"
  /\ ~out.args.yes
  /\ out.args.before # undefined
  /\ \E i \in 1..Len(out.before) : textLess(out.before[i].timestamp, out.args.before[1])
  /\ usage = out.before

\* The sequences that hold the rows of s in another order.
permutationsOf(s) ==
  { [i \in 1..Len(s) |-> s[f[i]]] : f \in Permutations(1..Len(s)) }

\* C17: aggregation does not depend on the order of the records: the loop of
\* getStats run over any permutation of the rows it aggregated yields the same
\* totalRequests, totalTokens and totalCost and the same byProvider and byModel
\* contents.
C17_OrderIndependence ==
  out.op = "getStats" =>
    \A p \in permutationsOf(out.rows) : aggregate(p) = out.result

RECURSIVE decimal(_, _)
decimal(s, acc) ==
  IF s = <<>> THEN acc ELSE decimal(Tail(s), 10 * acc + digitValue(Head(s)))

\* The most entries list may display: 20 without -l, N with -l N.
mostListed(l) == IF l = undefined THEN 20 ELSE decimal(l[1], 0)

\* C22: list displays at most 20 entries without -l and at most N with -l N,
\* and they are the most recent ones: no stored entry that is left out (and that
\* the provider filter admits) is later than a displayed one.
C22_ListLimit ==
  out.op = "list" =>
    /\ Len(out.result) <= mostListed(out.args.limit)
    /\ \A i \in 1..Len(out.result) : \A r \in rowsOf(out.before) \ rowsOf(out.result) :
         (supplied(out.args.provider) => r.provider = out.args.provider[1])
           => textLeq(r.timestamp, out.result[i].timestamp)

----------------------------------------------------------------------------
(* Claims about the entry points *)

\* The provider a wrapper records: its own, or trackedAI's provider argument.
wrapperProvider(call) ==
  IF call.op = "trackedGPT" THEN openaiName
  ELSE IF call.op = "trackedClaude" THEN anthropicName
  ELSE IF call.op = "trackedGemini" THEN googleName
  ELSE call.provider

\* The <<prompt, completion>> counts a wrapper call's response reports, as a set:
\* empty when the response does not report both. A Gemini response reports 0 for
\* a count its usageMetadata does not give.
reportedCounts(call) ==
  LET r == call.response
  IN  IF call.op = "trackedAI"
        THEN IF r # undefined /\ r[1].promptTokens # undefined
                  /\ r[1].completionTokens # undefined
               THEN { <<r[1].promptTokens[1], r[1].completionTokens[1]>> } ELSE {}
      ELSE IF call.op = "trackedGemini"
        THEN IF r.usageMetadata = undefined THEN { <<0, 0>> }
             ELSE LET g == r.usageMetadata[1]
                  IN  { << IF g.promptTokenCount = undefined
                             THEN 0 ELSE g.promptTokenCount[1],
                           IF g.candidatesTokenCount = undefined
                             THEN 0 ELSE g.candidatesTokenCount[1] >> }
      ELSE IF r.usage = undefined THEN {}
      ELSE LET u == r.usage[1]
               p == IF call.op = "trackedGPT" THEN u.prompt_tokens ELSE u.input_tokens
               c == IF call.op = "trackedGPT"
                      THEN u.completion_tokens ELSE u.output_tokens
           IN  IF p # undefined /\ c # undefined THEN { <<p[1], c[1]>> } ELSE {}

wrapperOps == { "trackedGPT", "trackedClaude", "trackedGemini", "trackedAI" }

carriedCounts(r) ==
  LET u == r.usage[1]
      g == r.usageMetadata[1]
  IN  IF ~r.object THEN {}
      ELSE IF r.usage # undefined /\ u.prompt_tokens # undefined
                /\ u.completion_tokens # undefined
        THEN { <<u.prompt_tokens[1], u.completion_tokens[1]>> }
      ELSE IF r.usage # undefined /\ u.input_tokens # undefined
                /\ u.output_tokens # undefined
        THEN { <<u.input_tokens[1], u.output_tokens[1]>> }
      ELSE IF r.usageMetadata # undefined
        THEN { << IF g.promptTokenCount = undefined THEN 0 ELSE g.promptTokenCount[1],
                  IF g.candidatesTokenCount = undefined
                    THEN 0 ELSE g.candidatesTokenCount[1] >> }
      ELSE {}

\* C12: a method call through a tracked client, at any depth, whose response
\* carries token usage in one of the three forms leaves the table with exactly one
\* more row, holding those counts.
C12_MiddlewareTracksAll ==
  (out.op = "createTrackedClient") =>
    \A k \in carriedCounts(out.args.response) :
      /\ Len(usage) = Len(out.before) + 1
      /\ SubSeq(usage, 1, Len(out.before)) = out.before
      /\ usage[Len(usage)].promptTokens = k[1]
      /\ usage[Len(usage)].completionTokens = k[2]

\* The track calls of a batch whose response carries usage.
batchWithUsage ==
  { i \in DOMAIN pending :
      /\ pending[i].pc = "done"
      /\ pending[i].response.object
      /\ \/ pending[i].response.usage # undefined
         \/ pending[i].response.usageMetadata # undefined }

\* C13: once every track call of a batch has finished, in whatever order their
\* API calls resolved, the table holds exactly one row for each call whose
\* response carries usage: the rows and those calls correspond one to one, and
\* the row of a call whose response gives both counts holds those counts.
C13_ParallelTracking ==
  (pending # <<>> /\ \A i \in DOMAIN pending : pending[i].pc = "done") =>
    /\ Len(usage) = Cardinality(batchWithUsage)
    /\ \E f \in [batchWithUsage -> 1..Len(usage)] :
         /\ \A i, j \in batchWithUsage : i # j => f[i] # f[j]
         /\ \A i \in batchWithUsage : \A k \in carriedCounts(pending[i].response) :
              /\ usage[f[i]].promptTokens = k[1]
              /\ usage[f[i]].completionTokens = k[2]

----------------------------------------------------------------------------
(* Specifications *)

\* calculateCost as a pure function: every call in the input sets is made once.
PriceSpec == PriceInit /\ [][PriceNext]_vars

\* The store under the CLI's add command and the three queries of src/src/db.ts.
StoreSpec == StoreInit /\ [][StoreNext]_vars

\* The store under every entry point that records a resolved API call.
TrackSpec == TrackInit /\ [][TrackNext]_vars

\* The store under the four wrappers of src/src/wrappers.ts.
WrapperSpec == WrapperInit /\ [][WrapperNext]_vars

\* The store under the proxy of createTrackedClient and under withTracking.
MiddlewareSpec == MiddlewareInit /\ [][MiddlewareNext]_vars

\* The store under the concurrent track calls of one BatchTracker.
BatchSpec == BatchInit /\ [][BatchNext]_vars

\* The store under add, the db calls, calculateCost and the clear command.
FrameSpec == FrameInit /\ [][FrameNext]_vars

\* getStats over records whose costs are doubles.
AggSpec == AggInit /\ [][AggNext]_vars

\* calculateCost before, between and after the store's operations.
PureSpec == PureInit /\ [][PureNext]_vars

\* The store under the add and list commands.
ListSpec == ListInit /\ [][ListNext]_vars

\* Streaming calls and their consumers.
StreamSpec == StreamInit /\ [][StreamNextStep]_vars

\* The entry points that track a resolved API call.
trackingOps ==
  { "trackedGPT", "trackedClaude", "trackedGemini", "trackedAI", "withTracking",
    "BatchTracker.track", "createTrackedClient" }

----------------------------------------------------------------------------
(* Claims about streaming calls *)

\* C23: a streaming call stores nothing when it returns the stream; a record is
\* stored only by the step that finds the source exhausted after every chunk has
\* been yielded; a stream the consumer leaves early, or whose source throws, has
\* stored nothing.
C23_RecordedAtEnd ==
  [][ /\ (gen.pc # "suspended" /\ gen'.pc = "suspended") => usage' = usage
      /\ usage' # usage =>
           /\ gen.pc = "suspended"
           /\ gen'.pc = "done"
           /\ gen.yielded = gen.source
           /\ ~gen.fails
      /\ gen'.pc \in {"returned", "thrown"} => usage' = gen'.before ]_vars

\* C23's case: the consumer was given every chunk, one with usage among them,
\* and left without asking for more: nothing was stored.
C23_Witness ==
  /\ gen.pc = "returned"
  /\ gen.yielded = gen.source
  /\ \E i \in 1..Len(gen.yielded) : gen.yielded[i].usage # undefined
  /\ usage = gen.before

\* An absent count read as 0.
countOr0(o) == IF o = undefined THEN 0 ELSE o[1]

\* The largest element of a non-empty set of numbers.
greatest(S) == CHOOSE x \in S : \A y \in S : y <= x

\* The positions of the chunks of a stream that carry usage.
withUsage(s) == { i \in 1..Len(s) : s[i].usage # undefined }

\* table is before with one record more, of the given provider, model and counts.
oneMore(table, before, provider, model, promptTokens, completionTokens) ==
  /\ Len(table) = Len(before) + 1
  /\ SubSeq(table, 1, Len(before)) = before
  /\ table[Len(table)].provider = provider
  /\ table[Len(table)].model = model
  /\ table[Len(table)].promptTokens = promptTokens
  /\ table[Len(table)].completionTokens = completionTokens
  /\ table[Len(table)].totalTokens = promptTokens + completionTokens

\* C24: when the consumer has exhausted an OpenAI stream, every chunk was
\* yielded unchanged and in order; if a chunk carried usage, exactly one record
\* was stored, its counts those of the last such chunk (an absent count as 0)
\* and its total their sum; if none did, nothing was stored.
C24_OpenAIStreamUsage ==
  (gen.pc = "done" /\ gen.provider = openaiName) =>
    /\ gen.yielded = gen.source
    /\ IF withUsage(gen.source) = {} THEN usage = gen.before
       ELSE LET u == gen.source[greatest(withUsage(gen.source))].usage
            IN  oneMore(usage, gen.before, openaiName, gen.model,
                        countOr0(u[1].prompt_tokens), countOr0(u[1].completion_tokens))

\* C24's case: two chunks carried different usage, the last of them without a
\* completion count, and the record has the counts 7, 0 and 7.
C24_Witness ==
  /\ gen.pc = "done"
  /\ gen.provider = openaiName
  /\ Cardinality({ gen.source[i].usage : i \in withUsage(gen.source) }) = 2
  /\ gen.source[greatest(withUsage(gen.source))].usage[1].completion_tokens = undefined
  /\ oneMore(usage, gen.before, openaiName, gen.model, 7, 0)

\* The count the last event of a type carries, 0 when there is no such event.
lastCount(s, type, name) ==
  LET at == { i \in withUsage(s) : s[i].type = type }
  IN  IF at = {} THEN 0 ELSE countOr0(s[greatest(at)].usage[1][name])

\* C25: when the consumer has exhausted an Anthropic stream, exactly one record
\* was stored if the input count of the last message_start or the output count
\* of the last message_delta is positive, with these two counts and their sum;
\* otherwise nothing was stored.
C25_AnthropicStreamUsage ==
  (gen.pc = "done" /\ gen.provider = anthropicName) =>
    LET input == lastCount(gen.source, "message_start", "input_tokens")
        output == lastCount(gen.source, "message_delta", "output_tokens")
    IN  IF input > 0 \/ output > 0
          THEN oneMore(usage, gen.before, anthropicName, gen.model, input, output)
          ELSE usage = gen.before

\* C25's case: a message_start with input count 0 and a message_delta with
\* output count 2: one record with the counts 0, 2 and 2.
C25_Witness ==
  /\ gen.pc = "done"
  /\ gen.provider = anthropicName
  /\ \E i \in withUsage(gen.source) : gen.source[i].type = "message_start"
  /\ lastCount(gen.source, "message_start", "input_tokens") = 0
  /\ oneMore(usage, gen.before, anthropicName, gen.model, 0, 2)

----------------------------------------------------------------------------
(* Claims that relate getStats to getUsage, to pricing and to the display *)

\* The requests, tokens and cost of a set of records.
entryOf(rows) ==
  [requests |-> Cardinality(rows), tokens |-> rowTokens(rows), cost |-> rowCost(rows)]

\* The aggregation of a set of records: the totals, and the entry of every
\* provider and of every provider/model key that occurs among them.
aggregationOf(rows) ==
  [ totalRequests |-> Cardinality(rows),
    totalTokens |-> rowTokens(rows),
    totalCost |-> rowCost(rows),
    byProvider |-> [ p \in { r.provider : r \in rows } |->
                       entryOf({ r \in rows : r.provider = p }) ],
    byModel |-> [ k \in { modelKey(r) : r \in rows } |->
                    entryOf({ r \in rows : modelKey(r) = k }) ] ]

sameProvider(a, b) == toLowerCase(a) = toLowerCase(b)

\* The stored records whose provider the filter names, in any letter case.
named(table, provider) ==
  { r \in rowsOf(table) : sameProvider(r.provider, provider[1]) }

\* C28: records whose providers differ only in letter case share one byProvider
\* entry of getStats, and a provider filter that names their provider selects
\* all of them in getUsage, getStats and clearUsage.
C28_ProviderNaming ==
  /\ out.op = "getStats" =>
       \A a, b \in DOMAIN out.result.byProvider : sameProvider(a, b) => a = b
  /\ (out.op = "getStats" /\ truthyString(out.args.provider)) =>
       out.result.totalRequests = Cardinality(named(out.before, out.args.provider))
  /\ (out.op = "getUsage" /\ truthyString(out.args.provider)) =>
       rowsOf(out.result) = named(out.before, out.args.provider)
  /\ (out.op = "clearUsage" /\ truthyString(out.args.provider)) =>
       /\ out.result = Cardinality(named(out.before, out.args.provider))
       /\ named(usage, out.args.provider) = {}

\* The (provider, model) pairs of a set of records.
pairsOf(rows) == { <<r.provider, r.model>> : r \in rows }

\* C29: in every getStats result there are as many byModel entries as distinct
\* (provider, model) pairs among the aggregated records, and the entry of each
\* pair holds the requests, tokens and cost of the records of that pair alone.
C29_ModelKeysDistinct ==
  out.op = "getStats" =>
    LET rows == selectRows(out.before, out.args)
    IN  /\ Cardinality(DOMAIN out.result.byModel) = Cardinality(pairsOf(rows))
        /\ \A pr \in pairsOf(rows) :
             /\ pr[1] \o <<"/">> \o pr[2] \in DOMAIN out.result.byModel
             /\ out.result.byModel[pr[1] \o <<"/">> \o pr[2]] =
                  entryOf({ r \in rows : <<r.provider, r.model>> = pr })

\* C30: whenever displayStats computes a provider's share (byProvider has a
\* key), stats.totalCost is not zero, and every share is a number.
C30_PercentageDefined ==
  (out.op = "stats" /\ out.displayed /\ DOMAIN out.result.byProvider # {}) =>
    /\ out.result.totalCost # 0
    /\ \A p \in DOMAIN out.shares : out.shares[p].kind = "number"

\* Every entry point that tracks a resolved call, over responses that can and
\* that cannot be recorded.
ContainSpec == ContainInit /\ [][ContainNext]_vars

\* getStats and getUsage over the same filters.
AgreeSpec == AgreeInit /\ [][AgreeNext]_vars

\* One provider stored under two spellings.
NamingSpec == NamingInit /\ [][NamingNext]_vars

\* Records whose provider or model contains '/'.
KeySpec == KeyInit /\ [][KeyNext]_vars

\* The add and the stats command, over records with and without a cost.
ShareSpec == ShareInit /\ [][ShareNext]_vars

=============================================================================
